---- MODULE Spec2Model ----
(***************************************************************************)
(* State-machine model of the scraper system's delivery layer:             *)
(*   - core/batch_processor.py  BatchProcessor (duplicate cache, progress  *)
(*     file, last-run file, process_batch)                                 *)
(*   - core/orchestrator.py     ScraperOrchestrator in digest mode         *)
(* URLs are the integers 1..MaxUrl; None (0) is Python's None / a missing  *)
(* URL.  Every JSON file is modelled by its content; a write is modelled   *)
(* as succeeding (the except-branches of the save methods only print).     *)
(***************************************************************************)
EXTENDS Integers, Sequences, FiniteSets, TLC

\* ------------------------------------------------------------------ bounds
MaxUrl == 3          \* distinct URL strings
MaxLinks == 3        \* longest all_urls list handed to process_batch
MaxBatchSize == 2    \* largest batch_size a BatchProcessor is built with
MaxPrior == 1        \* URLs 1..MaxPrior may be in the snapshot files / progress file at start

None == 0
Urls == 1..MaxUrl
NoKey == "none"      \* scraper_key=None

Min(a, b) == IF a < b THEN a ELSE b
SeqsUpTo(S, n) == UNION {[1..k -> S] : k \in 0..n}
Range(s) == {s[j] : j \in 1..Len(s)}

VARIABLES
    existing_urls,   \* BatchProcessor.existing_urls
    sent_urls,       \* BatchProcessor.sent_urls
    url_hashes,      \* BatchProcessor.url_hashes
    last_run_times,  \* BatchProcessor.last_run_times: scraper key -> record
    batch_size,      \* BatchProcessor.batch_size
    scraped_files,   \* URLs held by the snapshot files data/scraped/*.json
    progress_file,   \* content of data/progress/batch_progress.json
    last_run_file,   \* content of data/progress/last_run.json
    clock,           \* datetime.now(): the instant the next stamp will carry
    pb,              \* the running process_batch call: its locals and position
    mail_log,        \* what process_batch did to the outside: sends and sleeps, in order
    scraper_registry,   \* ScraperOrchestrator.scraper_registry
    orch,               \* run_all_scrapers: its position in the two nested loops
    results,            \* ScraperOrchestrator.results: scraper key -> result record
    digest_urls,        \* ScraperOrchestrator.digest_urls
    digest_by_scraper,  \* ScraperOrchestrator.digest_by_scraper: display name -> records
    exec_log,           \* the _execute_scraper calls of this run, in order
    last_exec,          \* the latest _execute_scraper call: what it was given
    digest_log,         \* the send_digest_email calls so far, in order
    fetch,              \* the running BaseScraper.fetch_page call: position, GETs and sleeps
    run,                \* the running BaseScraper.run call: position, records, session, snapshot
    settings,           \* config/settings.py: date-filtering flags, and the latest helper call
    breach,             \* the running USATodayBreachesScraper.scrape call: its locals
    tracker,            \* main_usatoday_breaches.py: the USATodayTracker, its file and the run
    script              \* a command-line script (scripts/): its position, answer and exit status

bp_vars == <<existing_urls, sent_urls, url_hashes, last_run_times, batch_size>>
file_vars == <<scraped_files, progress_file, last_run_file>>
orch_vars == <<scraper_registry, orch, results, digest_urls, digest_by_scraper,
               exec_log, last_exec, digest_log>>
call_vars == <<pb, mail_log>>
side_vars == <<fetch, run, settings, breach, tracker, script>>
vars == <<existing_urls, sent_urls, url_hashes, last_run_times, batch_size,
          scraped_files, progress_file, last_run_file, clock, pb, mail_log,
          scraper_registry, orch, results, digest_urls, digest_by_scraper,
          exec_log, last_exec, digest_log, fetch, run, settings,
          breach, tracker, script>>

\* ------------------------------------------------------------------ links
\* A link item is a dict holding its URL under 'url' or under 'link'/'href',
\* or a dict with none of these keys.  (A bare string behaves as key "url".)
UrlLink(u) == [key |-> "url", url |-> u]
AltLink(u) == [key |-> "link", url |-> u]
NoUrlLink == [key |-> "none", url |-> None]

\* link.get('url') or link.get('link') or link.get('href')
ExtractUrl(link) == IF link.key \in {"url", "link"} THEN link.url ELSE None

\* hashlib.md5(url.encode()).hexdigest(): a digest, one per URL string
md5(u) == <<"md5", u>>

\* ------------------------------------------------------------------ BatchProcessor
\* data/progress/batch_progress.json; exists = FALSE: no such file
NoProgressFile == [exists |-> FALSE, sent_urls |-> {}, total_sent |-> 0]

ProgressRecord(sent) == [exists |-> TRUE, sent_urls |-> sent, total_sent |-> Cardinality(sent)]

\* mutant: the sent list is not dumped, only its count
save_progress_nolist(sent) == [exists |-> TRUE, sent_urls |-> {}, total_sent |-> Cardinality(sent)]

save_progress(sent) == ProgressRecord(sent)

is_duplicate(url, existing, hashes) == url \in existing \/ md5(url) \in hashes

is_already_sent(url, sent) == url \in sent

\* a last-run record stamped at instant t
LastRunRecord(name, t, n, ok) ==
    [scraper_name |-> name, last_run |-> t, last_success |-> ok,
     urls_found |-> n, timestamp |-> t]

update_last_run_time(lrt, key, name, n, ok, t) ==
    [k \in DOMAIN lrt \cup {key} |-> IF k = key THEN LastRunRecord(name, t, n, ok) ELSE lrt[k]]

\* update_last_run_time followed by its save_last_run_times
StampLastRun(key, name, n, ok) ==
    /\ last_run_times' = update_last_run_time(last_run_times, key, name, n, ok, clock)
    /\ last_run_file' = last_run_times'
    /\ clock' = clock + 1

\* mutant: the record is written whether or not a key was given
StampIfKey_always(key, name, n, ok) == StampLastRun(key, name, n, ok)

\* `if scraper_key: self.update_last_run_time(...)`
StampIfKey(key, name, n, ok) ==
    IF key # NoKey THEN StampLastRun(key, name, n, ok)
    ELSE UNCHANGED <<last_run_times, last_run_file, clock>>

\* mutant: the survivors are registered only after the loop, so a repeat
\* inside the same input is tested against the cache as it was at the call
FilterFrom_keeps_repeats(links, j, existing, hashes, sent, acc) ==
    LET New(link) == /\ ExtractUrl(link) # None
                     /\ ~is_duplicate(ExtractUrl(link), existing, hashes)
                     /\ ~is_already_sent(ExtractUrl(link), sent)
        unique == SelectSeq(links, New)
        urls == {ExtractUrl(unique[h]) : h \in 1..Len(unique)}
    IN [unique |-> unique, existing |-> existing \cup urls,
        hashes |-> hashes \cup {md5(u) : u \in urls}]

RECURSIVE FilterFrom(_, _, _, _, _, _)
FilterFrom(links, j, existing, hashes, sent, acc) ==
    IF j > Len(links) THEN [unique |-> acc, existing |-> existing, hashes |-> hashes]
    ELSE LET url == ExtractUrl(links[j]) IN
         IF url = None THEN FilterFrom(links, j + 1, existing, hashes, sent, acc)
         ELSE IF is_duplicate(url, existing, hashes)
              THEN FilterFrom(links, j + 1, existing, hashes, sent, acc)
         ELSE IF is_already_sent(url, sent)
              THEN FilterFrom(links, j + 1, existing, hashes, sent, acc)
         ELSE FilterFrom(links, j + 1, existing \cup {url}, hashes \cup {md5(url)},
                         sent, Append(acc, links[j]))

filter_unique_urls(links, existing, hashes, sent) ==
    FilterFrom(links, 1, existing, hashes, sent, <<>>)

RECURSIVE extract_urls_from_links(_)
extract_urls_from_links(links) ==
    IF links = <<>> THEN <<>>
    ELSE LET url == ExtractUrl(Head(links))
             rest == extract_urls_from_links(Tail(links))
         IN IF url # None THEN <<url>> \o rest ELSE rest

\* (len(unique_links) + batch_size - 1) // batch_size
TotalBatches(n, size) == (n + size - 1) \div size

\* mutant: the slice runs one item too far
BatchSlice_overlap(links, i, size) == SubSeq(links, i + 1, Min(i + size + 1, Len(links)))

\* unique_links[i:i + batch_size], i counted from 0
BatchSlice(links, i, size) == SubSeq(links, i + 1, Min(i + size, Len(links)))

\* mutant: the delay is also taken after the last batch
DelayDue_always(batch_number, total_batches) == batch_number <= total_batches

\* `if batch_number < total_batches:` guarding time.sleep
DelayDue(batch_number, total_batches) == batch_number < total_batches

\* mutant: the sent set is replaced by the batch just sent
MarkSent_replace(sent, batch_urls) == Range(batch_urls)

\* mutant: only the first URL of the batch is marked
MarkSent_first(sent, batch_urls) == sent \cup {Head(batch_urls)}

\* mutant: the delivered batch is not marked at all
MarkSent_none(sent, batch_urls) == sent

\* `for url in batch_urls: self.sent_urls.add(url)`
MarkSent(sent, batch_urls) == sent \cup Range(batch_urls)

\* ------------------------------------------------------------------ process_batch
IdleCall ==
    [pc |-> "idle", all_urls |-> <<>>, unique_links |-> <<>>, i |-> 0,
     batch_number |-> 0, total_batches |-> 0, scraper_key |-> NoKey,
     ret |-> "none", sent_at_call |-> {}]

SendEvent(urls, ok) == [kind |-> "send", urls |-> urls, ok |-> ok]
SleepEvent == [kind |-> "sleep", urls |-> <<>>, ok |-> TRUE]

\* lines 449-458: the loop is over, stamp success and return True
FinishCall(call) ==
    /\ pb' = [call EXCEPT !.pc = "done", !.ret = "true"]
    /\ StampIfKey(call.scraper_key, call.scraper_key, Len(call.unique_links), TRUE)

\* the `for i in range(0, len(unique_links), batch_size)` header after one pass
NextPass(call) ==
    LET nxt == [call EXCEPT !.i = call.i + batch_size,
                            !.batch_number = call.batch_number + 1]
    IN IF nxt.i < Len(nxt.unique_links)
       THEN /\ pb' = [nxt EXCEPT !.pc = "send"]
            /\ UNCHANGED <<last_run_times, last_run_file, clock>>
       ELSE FinishCall(nxt)

\* process_batch up to its first send (lines 365-398)
process_batch_entry(all_urls, key) ==
    /\ LET call == [IdleCall EXCEPT !.all_urls = all_urls, !.scraper_key = key,
                                     !.sent_at_call = sent_urls]
       IN IF all_urls = <<>>
          THEN /\ pb' = [call EXCEPT !.pc = "done", !.ret = "true"]
               /\ StampIfKey(key, key, 0, TRUE)
               /\ UNCHANGED <<existing_urls, url_hashes>>
          ELSE LET f == filter_unique_urls(all_urls, existing_urls, url_hashes, sent_urls) IN
               /\ existing_urls' = f.existing
               /\ url_hashes' = f.hashes
               /\ IF f.unique = <<>>
                  THEN /\ pb' = [call EXCEPT !.pc = "done", !.ret = "true"]
                       /\ StampIfKey(key, key, 0, TRUE)
                  ELSE /\ pb' = [call EXCEPT !.pc = "send", !.unique_links = f.unique,
                                             !.i = 0, !.batch_number = 1,
                                             !.total_batches = TotalBatches(Len(f.unique), batch_size)]
                       /\ UNCHANGED <<last_run_times, last_run_file, clock>>
    /\ UNCHANGED <<sent_urls, batch_size, scraped_files, progress_file, mail_log>>

\* process_batch is called while no call is under way
process_batch_begin(all_urls, key) ==
    /\ pb.pc = "idle"
    /\ process_batch_entry(all_urls, key)

\* a caller other than an orchestrator calls process_batch
ProcessBatchCall(all_urls, key) ==
    /\ process_batch_begin(all_urls, key)
    /\ UNCHANGED <<orch_vars, side_vars>>

\* one pass of the loop up to the sleep: the send and what follows it (lines 402-447)
SendBatch(success) ==
    /\ pb.pc = "send"
    /\ LET batch == BatchSlice(pb.unique_links, pb.i, batch_size)
           batch_urls == extract_urls_from_links(batch)
       IN /\ mail_log' = Append(mail_log, SendEvent(batch_urls, success))
          /\ IF success
             THEN /\ sent_urls' = MarkSent(sent_urls, batch_urls)
                  /\ progress_file' = save_progress(sent_urls')
                  /\ IF DelayDue(pb.batch_number, pb.total_batches)
                     THEN /\ pb' = [pb EXCEPT !.pc = "sleep"]
                          /\ UNCHANGED <<last_run_times, last_run_file, clock>>
                     ELSE NextPass(pb)
             ELSE /\ StampIfKey(pb.scraper_key, pb.scraper_key, Len(pb.unique_links), FALSE)
                  /\ pb' = [pb EXCEPT !.pc = "done", !.ret = "false"]
                  /\ UNCHANGED <<sent_urls, progress_file>>
    /\ UNCHANGED <<existing_urls, url_hashes, batch_size, scraped_files>>
    /\ UNCHANGED <<orch_vars, side_vars>>

\* time.sleep(self.delay_seconds) and the end of that pass (lines 437, 447)
InterBatchDelay ==
    /\ pb.pc = "sleep"
    /\ mail_log' = Append(mail_log, SleepEvent)
    /\ NextPass(pb)
    /\ UNCHANGED <<existing_urls, sent_urls, url_hashes, batch_size,
                   scraped_files, progress_file>>
    /\ UNCHANGED <<orch_vars, side_vars>>

\* ------------------------------------------------------------------ construction
BatchKey == "test_scraper"
StaleStamp == 0      \* a last_run instant of an earlier run
RunStart == 1        \* the first instant of this run

StaleRecord(name) == LastRunRecord(name, StaleStamp, 0, TRUE)

\* mutant: the URLs of the progress file are loaded without their hashes
load_existing_data_sent_unhashed(snapshot, progress) ==
    [existing_urls |-> snapshot,
     sent_urls |-> progress.sent_urls,
     url_hashes |-> {md5(u) : u \in snapshot}]

\* mutant: the snapshot files are not read
load_existing_data_progress_only(snapshot, progress) ==
    [existing_urls |-> {},
     sent_urls |-> progress.sent_urls,
     url_hashes |-> {md5(u) : u \in progress.sent_urls}]

\* load_existing_data: the three sets it builds from the snapshot files and
\* the progress file
load_existing_data(snapshot, progress) ==
    [existing_urls |-> snapshot,
     sent_urls |-> progress.sent_urls,
     url_hashes |-> {md5(u) : u \in snapshot \cup progress.sent_urls}]

\* BatchProcessor.__init__: load_existing_data and load_last_run_times over the files
Constructed(size, snapshot, progress, lastrun) ==
    /\ batch_size = size
    /\ scraped_files = snapshot
    /\ progress_file = progress
    /\ last_run_file = lastrun
    /\ existing_urls = load_existing_data(snapshot, progress).existing_urls
    /\ sent_urls = load_existing_data(snapshot, progress).sent_urls
    /\ url_hashes = load_existing_data(snapshot, progress).url_hashes
    /\ last_run_times = lastrun
    /\ clock = RunStart

\* the URLs an earlier run may have left in the files (URLs are interchangeable)
PriorUrls == 1..Min(MaxPrior, MaxUrl)

ProgressFiles == {NoProgressFile} \cup {ProgressRecord(S) : S \in SUBSET PriorUrls}

\* ------------------------------------------------------------------ the registry
Entry(key, name, enabled) == [key |-> key, name |-> name, enabled |-> enabled]

\* a registry of two categories, law_firms (two entries) and government (one)
Registry(e1, e2, e3) ==
    << <<Entry("clarkson", "Clarkson Law Firm", e1), Entry("crosner", "Crosner Legal", e2)>>,
       <<Entry("ny_ag", "New York AG", e3)>> >>

RECURSIVE Flatten(_)
Flatten(cats) == IF cats = <<>> THEN <<>> ELSE Head(cats) \o Flatten(Tail(cats))

\* `for category, scrapers in registry.items(): for key, info in scrapers.items()`
AllEntries == Flatten(scraper_registry)

\* no fetch_page call is running; max_retries is SCRAPER_CONFIG['max_retries']
FetchIdle(max_retries) ==
    [pc |-> "idle", url |-> None, retry_count |-> 0, max_retries |-> max_retries,
     log |-> <<>>, ret |-> "none"]

DefaultRetries == 3  \* int(os.getenv('MAX_RETRIES', '3'))
NoFetch == FetchIdle(DefaultRetries)

\* no BaseScraper.run call: the session of __init__ is open, scraped_data = []
\* (base_scraper.py lines 54, 71), no snapshot written by this scraper
NoRun == [pc |-> "idle", scraped_data |-> <<>>, session |-> "open",
          snapshot |-> [exists |-> FALSE, complete |-> FALSE, data |-> <<>>],
          scrape |-> "none", ret |-> "none"]

\* the keys validate_config reads from EMAIL_CONFIG (settings.py lines 694-698)
EmailKeys == {"sender_email", "sender_password", "receiver_emails"}

\* a key of the loaded dictionary: not in it, falsy ('' or []), or truthy
FieldStates == {"missing", "empty", "set"}

\* the dictionary load_email_config returns without a usable file: {}
EmptyConfig == [k \in EmailKeys |-> "missing"]

\* DATA_DIR, SCRAPED_DIR, PROGRESS_DIR, LOGS_DIR (settings.py lines 31-34)
RequiredDirs == {"Data", "Scraped", "Progress", "Logs"}

\* validate_config has not been called
NoValidate == [pc |-> "idle", raised |-> FALSE, ret |-> FALSE]

\* the registry as shipped: every entry carries 'date_filtering': True, and
\* ENABLE_DATE_FILTERING defaults to 'true' (settings.py lines 234, 251); the
\* import created the data directories (lines 52-53)
ShippedSettings ==
    [date_filtering |-> [key \in {"clarkson", "crosner", "ny_ag"} |-> "on"],
     enable_date_filtering |-> TRUE, pc |-> "idle", key |-> NoKey, ret |-> FALSE,
     email_config |-> EmptyConfig, dirs |-> RequiredDirs, validate |-> NoValidate]

\* no scrape call of the USA Today scraper: the locals of lines 131-134
NoBreach ==
    [pc |-> "idle", page_number |-> 0, results |-> <<>>, seen_hashes |-> {},
     page_duplicates |-> 0, total_duplicates |-> 0, reported |-> None,
     rows |-> <<>>, driver |-> "none", advances |-> 0, page_has_rows |-> FALSE,
     page_log |-> <<>>, stop |-> "none"]

\* data/scraped/usatoday_sent_urls.json: missing, or a JSON list of identifiers
TrackingFile(exists, data) == [exists |-> exists, data |-> data]

\* main_usatoday_breaches.py has not run: no tracking file
NoTracker ==
    [pc |-> "idle", runs |-> 0, file |-> TrackingFile(FALSE, <<>>), sent_urls |-> {},
     all_breaches |-> <<>>, new_breaches |-> <<>>,
     email |-> [kind |-> "none", records |-> <<>>, ok |-> FALSE],
     file_before |-> TrackingFile(FALSE, <<>>), marked_before |-> {}, marked |-> {}]

\* no script has been started: nothing typed, nothing built, no exit status
NoScript ==
    [pc |-> "idle", name |-> "none", typed |-> "", constructed |-> FALSE, status |-> -1,
     output |-> "none"]

\* everything but fetch_page is at rest
SideRest ==
    /\ run = NoRun
    /\ settings = ShippedSettings
    /\ breach = NoBreach
    /\ tracker = NoTracker
    /\ script = NoScript

SideIdle ==
    /\ fetch = NoFetch
    /\ SideRest

\* no orchestrator run: ScraperOrchestrator.__init__ (lines 75-82)
NoExec == [key |-> NoKey, name |-> NoKey, first_new |-> <<>>, raised |-> FALSE]

OrchIdle ==
    /\ orch = [pc |-> "idle", cat |-> 1, idx |-> 1]
    /\ results = <<>>
    /\ digest_urls = <<>>
    /\ digest_by_scraper = <<>>
    /\ exec_log = <<>>
    /\ last_exec = NoExec
    /\ SideIdle
    /\ digest_log = <<>>

BatchInit ==
    /\ \E size \in 1..MaxBatchSize, snapshot \in SUBSET PriorUrls,
          progress \in ProgressFiles,
          lastrun \in {<<>>, [k \in {BatchKey} |-> StaleRecord(k)]} :
          Constructed(size, snapshot, progress, lastrun)
    /\ pb = IdleCall
    /\ mail_log = <<>>
    /\ scraper_registry = Registry(TRUE, TRUE, TRUE)
    /\ OrchIdle

BatchLinks == {UrlLink(u) : u \in Urls} \cup {NoUrlLink}

BatchNext ==
    \/ \E all_urls \in SeqsUpTo(BatchLinks, MaxLinks), key \in {NoKey, BatchKey} :
          ProcessBatchCall(all_urls, key)
    \/ \E success \in BOOLEAN : SendBatch(success)
    \/ InterBatchDelay

SpecBatch == BatchInit /\ [][BatchNext]_vars

\* ------------------------------------------------------------------ ScraperOrchestrator, digest mode
MaxScraped == 2      \* longest list one scraper's run() returns

NoError == "none"    \* result['error'] = None

\* mutant: the 'enabled' flag is not consulted
IsEnabled_always(entry) == TRUE

\* scraper_info.get('enabled', True)
IsEnabled(entry) == entry.enabled

\* url_data.get('url') if isinstance(url_data, dict) else url_data
OrchUrl(url_data) == IF url_data.key = "url" THEN url_data.url ELSE None

\* mutant: the accepted URL is not registered
add_url_to_cache_forgets(item, existing, hashes) == [existing |-> existing, hashes |-> hashes]

\* mutant: the accepted URL is registered without its hash
add_url_to_cache_url_only(item, existing, hashes) ==
    LET url == ExtractUrl(item) IN
    IF url # None THEN [existing |-> existing \cup {url}, hashes |-> hashes]
    ELSE [existing |-> existing, hashes |-> hashes]

\* BatchProcessor._add_url_to_cache
add_url_to_cache(item, existing, hashes) ==
    LET url == ExtractUrl(item) IN
    IF url # None THEN [existing |-> existing \cup {url}, hashes |-> hashes \cup {md5(url)}]
    ELSE [existing |-> existing, hashes |-> hashes]

\* the duplicate filter of _execute_scraper (lines 191-201); is_duplicate(None)
\* raises at url.encode(), which ends the loop with the exception
RECURSIVE DigestFilterFrom(_, _, _, _, _)
DigestFilterFrom(data, j, existing, hashes, acc) ==
    IF j > Len(data)
    THEN [unique |-> acc, existing |-> existing, hashes |-> hashes, raised |-> FALSE]
    ELSE LET url == OrchUrl(data[j]) IN
         IF url = None
         THEN [unique |-> acc, existing |-> existing, hashes |-> hashes, raised |-> TRUE]
         ELSE IF ~is_duplicate(url, existing, hashes)
              THEN LET c == add_url_to_cache(data[j], existing, hashes)
                   IN DigestFilterFrom(data, j + 1, c.existing, c.hashes, Append(acc, data[j]))
              ELSE DigestFilterFrom(data, j + 1, existing, hashes, acc)

Result(entry, success, n, error) ==
    [scraper_key |-> entry.key, scraper_name |-> entry.name, success |-> success,
     urls_found |-> n, error |-> error]

\* the URLs the scrapers find: a list of n records carries at most n
ScrapedUrls == 1..Min(MaxScraped, MaxUrl)

\* what a scraper does when executed: the import fails, the constructor or
\* run() raises, or run() returns its records
Outcomes ==
    {[kind |-> k, data |-> <<>>] : k \in {"import_error", "init_error", "run_error"}}
    \cup {[kind |-> "ok", data |-> d] :
             d \in SeqsUpTo({UrlLink(u) : u \in ScrapedUrls} \cup {AltLink(1)}, MaxScraped)}

\* BaseScraper.run: a snapshot file is written when scraped_data is not empty
SnapshotAfterRun(files, outcome) ==
    IF outcome.kind = "ok" /\ outcome.data # <<>>
    THEN files \cup (Range(extract_urls_from_links(outcome.data)))
    ELSE files

\* _execute_scraper in digest mode: the result record and the new cache and accumulators
execute_scraper(entry, outcome, existing, hashes, durls, dby) ==
    LET same == [existing |-> existing, hashes |-> hashes, digest_urls |-> durls,
                 digest_by_scraper |-> dby]
    IN IF outcome.kind = "import_error"
       THEN same @@ [result |-> Result(entry, FALSE, 0, "Failed to import scraper class"),
                     raised |-> TRUE]
       ELSE IF outcome.kind \in {"init_error", "run_error"}
       THEN same @@ [result |-> Result(entry, FALSE, 0, "exception"), raised |-> TRUE]
       ELSE IF outcome.data = <<>>
       THEN same @@ [result |-> Result(entry, TRUE, 0, NoError), raised |-> FALSE]
       ELSE LET f == DigestFilterFrom(outcome.data, 1, existing, hashes, <<>>)
                n == Len(outcome.data)
            IN IF f.raised
               THEN [existing |-> f.existing, hashes |-> f.hashes, digest_urls |-> durls,
                     digest_by_scraper |-> dby,
                     result |-> Result(entry, TRUE, n, "exception"), raised |-> TRUE]
               ELSE IF f.unique # <<>>
               THEN [existing |-> f.existing, hashes |-> f.hashes,
                     digest_urls |-> durls \o f.unique,
                     digest_by_scraper |->
                         [nm \in DOMAIN dby \cup {entry.name} |->
                             IF nm = entry.name THEN f.unique ELSE dby[nm]],
                     result |-> Result(entry, TRUE, n, NoError), raised |-> FALSE]
               ELSE [existing |-> f.existing, hashes |-> f.hashes, digest_urls |-> durls,
                     digest_by_scraper |-> dby,
                     result |-> Result(entry, TRUE, n, NoError), raised |-> FALSE]

\* The records of data that carry a URL not yet registered and that no earlier
\* record of data carries: what the duplicate filter is claimed to keep.
FirstNew(data, existing, hashes) ==
    LET Keep(j) == /\ data[j].url \notin existing
                   /\ md5(data[j].url) \notin hashes
                   /\ \A h \in 1..(j - 1) : data[h].url # data[j].url
        kept == {j \in 1..Len(data) : Keep(j)}
        Nth(n) == CHOOSE j \in kept : Cardinality({h \in kept : h < j}) = n - 1
    IN [n \in 1..Cardinality(kept) |-> data[Nth(n)]]

\* mutant: the loop over the categories stops after the first category
RECURSIVE Settle_first_category(_, _, _)
Settle_first_category(reg, cat, idx) ==
    IF cat > Len(reg) THEN [cat |-> cat, idx |-> 1]
    ELSE IF idx > Len(reg[cat]) THEN [cat |-> Len(reg) + 1, idx |-> 1]
    ELSE [cat |-> cat, idx |-> idx]

\* the entry the two nested for-loops reach next from (cat, idx); cat > Len(reg): none
RECURSIVE Settle(_, _, _)
Settle(reg, cat, idx) ==
    IF cat > Len(reg) THEN [cat |-> cat, idx |-> 1]
    ELSE IF idx > Len(reg[cat]) THEN Settle(reg, cat + 1, 1)
    ELSE [cat |-> cat, idx |-> idx]

\* the loops move on to (cat, idx); after them comes `if self.digest_mode: send_daily_digest()`
MoveTo(cat, idx) ==
    LET pos == Settle(scraper_registry, cat, idx)
    IN orch' = [pc |-> IF pos.cat > Len(scraper_registry) THEN "digest" ELSE "loop",
                cat |-> pos.cat, idx |-> pos.idx]

CurrentEntry == scraper_registry[orch.cat][orch.idx]

\* run_all_scrapers, lines 577-583
RunAllStart ==
    /\ orch.pc = "idle"
    /\ results' = <<>>
    /\ digest_urls' = <<>>
    /\ digest_by_scraper' = <<>>
    /\ MoveTo(1, 1)
    /\ UNCHANGED <<bp_vars, file_vars, clock, call_vars, scraper_registry, side_vars, exec_log,
                   last_exec, digest_log>>

\* run_all_scrapers, lines 591-593
SkipDisabled ==
    /\ orch.pc = "loop"
    /\ ~IsEnabled(CurrentEntry)
    /\ MoveTo(orch.cat, orch.idx + 1)
    /\ UNCHANGED <<bp_vars, file_vars, clock, call_vars, scraper_registry, side_vars, results,
                   digest_urls, digest_by_scraper, exec_log, last_exec, digest_log>>

\* run_all_scrapers, lines 595-599: one _execute_scraper call
ExecuteScraper(outcome) ==
    /\ orch.pc = "loop"
    /\ IsEnabled(CurrentEntry)
    /\ LET entry == CurrentEntry
           r == execute_scraper(entry, outcome, existing_urls, url_hashes,
                                digest_urls, digest_by_scraper)
       IN /\ results' = [k \in DOMAIN results \cup {entry.key} |->
                            IF k = entry.key THEN r.result ELSE results[k]]
          /\ existing_urls' = r.existing
          /\ url_hashes' = r.hashes
          /\ digest_urls' = r.digest_urls
          /\ digest_by_scraper' = r.digest_by_scraper
          /\ scraped_files' = SnapshotAfterRun(scraped_files, outcome)
          /\ exec_log' = Append(exec_log, [key |-> entry.key, name |-> entry.name,
                                           raised |-> r.raised])
          /\ last_exec' = [key |-> entry.key, name |-> entry.name,
                           first_new |-> FirstNew(outcome.data, existing_urls, url_hashes),
                           raised |-> r.raised]
    /\ MoveTo(orch.cat, orch.idx + 1)
    /\ UNCHANGED <<sent_urls, last_run_times, batch_size, progress_file, last_run_file,
                   clock, call_vars, scraper_registry, side_vars, digest_log>>

\* _find_scraper_key: the key of the first registry entry with that display name
find_scraper_key(name) ==
    LET hits == {j \in 1..Len(AllEntries) : AllEntries[j].name = name}
    IN IF hits = {} THEN NoKey
       ELSE AllEntries[CHOOSE j \in hits : \A h \in hits : j <= h].key

\* the display names in digest_by_scraper, in the order they were inserted
ContributorNames ==
    LET executed == [j \in 1..Len(exec_log) |-> exec_log[j].name]
        Contributed(nm) == nm \in DOMAIN digest_by_scraper
    IN SelectSeq(executed, Contributed)

\* lines 331-342: one stamp per contributing scraper whose key is found
ContributorStamps ==
    LET stamps == [j \in 1..Len(ContributorNames) |->
                      [key |-> find_scraper_key(ContributorNames[j]),
                       name |-> ContributorNames[j],
                       n |-> Len(digest_by_scraper[ContributorNames[j]])]]
        Found(st) == st.key # NoKey
    IN SelectSeq(stamps, Found)

\* mutant: only the contributing scrapers are stamped
OtherStamps_none(updated) == <<>>

\* lines 345-355: one stamp, with count 0, per registry entry not yet updated
OtherStamps(updated) ==
    LET stamps == [j \in 1..Len(AllEntries) |->
                      [key |-> AllEntries[j].key, name |-> AllEntries[j].name, n |-> 0]]
        NotUpdated(st) == st.key \notin updated
    IN SelectSeq(stamps, NotUpdated)

\* update_last_run_time(key, name, n, True) for each stamp in turn, from instant t on
RECURSIVE StampEach(_, _, _)
StampEach(lrt, stamps, t) ==
    IF stamps = <<>> THEN lrt
    ELSE StampEach(update_last_run_time(lrt, Head(stamps).key, Head(stamps).name,
                                        Head(stamps).n, TRUE, t),
                   Tail(stamps), t + 1)

\* notifier.send_digest_email(...), lines 313-318
NotifyDigest(success) ==
    digest_log' = Append(digest_log, [total_urls |-> Len(digest_urls), ok |-> success,
                                      executed |-> Len(exec_log),
                                      urls |-> {digest_urls[j].url :
                                                   j \in 1..Len(digest_urls)}])

\* mutant: the last-run records are stamped whatever the send returned
AfterDigest_ignores_result(success) ==
    LET first == ContributorStamps
        updated == {first[j].key : j \in 1..Len(first)}
        stamps == first \o OtherStamps(updated)
    IN /\ last_run_times' = StampEach(last_run_times, stamps, clock)
       /\ last_run_file' = last_run_times'
       /\ clock' = clock + Len(stamps)

\* lines 320-362: what follows the send
AfterDigest(success) ==
    IF success
    THEN LET first == ContributorStamps
             updated == {first[j].key : j \in 1..Len(first)}
             stamps == first \o OtherStamps(updated)
         IN /\ last_run_times' = StampEach(last_run_times, stamps, clock)
            /\ last_run_file' = last_run_times'
            /\ clock' = clock + Len(stamps)
    ELSE UNCHANGED <<last_run_times, last_run_file, clock>>

\* mutant: with nothing accumulated the method returns before sending
send_daily_digest_skip_empty(success) ==
    IF digest_urls = <<>>
    THEN UNCHANGED <<digest_log, last_run_times, last_run_file, clock>>
    ELSE NotifyDigest(success) /\ AfterDigest(success)

\* ScraperOrchestrator.send_daily_digest
send_daily_digest(success) == NotifyDigest(success) /\ AfterDigest(success)

\* run_all_scrapers, lines 616-618
SendDailyDigest(success) ==
    /\ orch.pc = "digest"
    /\ send_daily_digest(success)
    /\ orch' = [orch EXCEPT !.pc = "done"]
    /\ UNCHANGED <<existing_urls, sent_urls, url_hashes, batch_size, scraped_files,
                   progress_file, call_vars, scraper_registry, side_vars, results, digest_urls,
                   digest_by_scraper, exec_log, last_exec>>

StaleLastRun == [k \in {AllEntries[j].key : j \in 1..Len(AllEntries)} |-> StaleRecord(k)]

\* run_all_scrapers.py style start: ScraperOrchestrator() builds its BatchProcessor
DigestInit ==
    /\ \E e1 \in BOOLEAN, e2 \in BOOLEAN, e3 \in BOOLEAN :
          scraper_registry = Registry(e1, e2, e3)
    /\ \E snapshot \in SUBSET PriorUrls,
          progress \in {NoProgressFile, ProgressRecord(PriorUrls)},
          lastrun \in {<<>>, StaleLastRun} :
          Constructed(MaxBatchSize, snapshot, progress, lastrun)
    /\ pb = IdleCall
    /\ mail_log = <<>>
    /\ OrchIdle

DigestNext ==
    \/ RunAllStart
    \/ SkipDisabled
    \/ \E outcome \in Outcomes : ExecuteScraper(outcome)
    \/ \E success \in BOOLEAN : SendDailyDigest(success)

SpecDigest == DigestInit /\ [][DigestNext]_vars

\* ------------------------------------------------------------------ a BatchProcessor in use
MaxOpLinks == 2      \* longest list handed to one operation
MaxStamp == 2        \* last instant at which a keyed process_batch call may start

\* the URLs the operations are handed: those an earlier run may have left, and one more
OpUrls == 1..Min(MaxPrior + 1, MaxUrl)
OpLinks == {UrlLink(u) : u \in OpUrls} \cup {NoUrlLink}

\* mutant: the reset empties the duplicate cache as well
reset_progress_clears_cache(existing, hashes, sent) ==
    [existing_urls |-> {}, url_hashes |-> {}, sent_urls |-> {}]

\* BatchProcessor.reset_progress: self.sent_urls.clear()
reset_progress(existing, hashes, sent) ==
    [existing_urls |-> existing, url_hashes |-> hashes, sent_urls |-> {}]

\* a caller runs reset_progress: the clear, then save_progress
ResetProgress ==
    /\ pb.pc = "idle"
    /\ LET r == reset_progress(existing_urls, url_hashes, sent_urls)
       IN /\ existing_urls' = r.existing_urls
          /\ url_hashes' = r.url_hashes
          /\ sent_urls' = r.sent_urls
          /\ progress_file' = save_progress(r.sent_urls)
    /\ pb' = [IdleCall EXCEPT !.pc = "done", !.ret = "reset"]
    /\ UNCHANGED <<last_run_times, last_run_file, clock, batch_size, scraped_files, mail_log>>
    /\ UNCHANGED <<orch_vars, side_vars>>

\* a caller runs reset_last_run_times: the clear, then save_last_run_times
ResetLastRunTimes ==
    /\ pb.pc = "idle"
    /\ last_run_times' = <<>>
    /\ last_run_file' = last_run_times'
    /\ pb' = [IdleCall EXCEPT !.pc = "done", !.ret = "reset_last_run"]
    /\ UNCHANGED <<existing_urls, sent_urls, url_hashes, clock, batch_size, scraped_files,
                   progress_file, mail_log>>
    /\ UNCHANGED <<orch_vars, side_vars>>

\* a caller asks is_duplicate(url); the answer is kept in the call record
IsDuplicateCall(url) ==
    /\ pb.pc = "idle"
    /\ pb' = [IdleCall EXCEPT !.pc = "done", !.all_urls = <<UrlLink(url)>>,
                              !.ret = IF is_duplicate(url, existing_urls, url_hashes)
                                      THEN "duplicate" ELSE "new"]
    /\ UNCHANGED <<bp_vars, file_vars, clock, mail_log>>
    /\ UNCHANGED <<orch_vars, side_vars>>

\* a caller runs filter_unique_urls(links) on its own
FilterCall(links) ==
    /\ pb.pc = "idle"
    /\ LET f == filter_unique_urls(links, existing_urls, url_hashes, sent_urls)
       IN /\ existing_urls' = f.existing
          /\ url_hashes' = f.hashes
          /\ pb' = [IdleCall EXCEPT !.pc = "done", !.all_urls = links,
                                    !.unique_links = f.unique, !.ret = "filtered"]
    /\ UNCHANGED <<sent_urls, last_run_times, last_run_file, clock, batch_size,
                   scraped_files, progress_file, mail_log>>
    /\ UNCHANGED <<orch_vars, side_vars>>

\* the operation has returned; the caller is ready for the next one
CallReturn ==
    /\ pb.pc = "done"
    /\ pb' = IdleCall
    /\ mail_log' = <<>>
    /\ UNCHANGED <<bp_vars, file_vars, clock>>
    /\ UNCHANGED <<orch_vars, side_vars>>

OpsInit == BatchInit

OpsNext ==
    \/ \E all_urls \in SeqsUpTo(OpLinks, MaxOpLinks), key \in {NoKey, BatchKey} :
          clock <= MaxStamp /\ ProcessBatchCall(all_urls, key)
    \/ \E success \in BOOLEAN : SendBatch(success)
    \/ InterBatchDelay
    \/ \E links \in SeqsUpTo(OpLinks, MaxOpLinks) : FilterCall(links)
    \/ \E url \in OpUrls : IsDuplicateCall(url)
    \/ ResetProgress
    \/ ResetLastRunTimes
    \/ CallReturn

SpecOps == OpsInit /\ [][OpsNext]_vars

\* ------------------------------------------------------------------ the legacy orchestrator
\* one run_scraper call in the log: whether the module was imported, whether
\* its main() was called, and what run_scraper returned
LegacyCall(key, imported, called, ret) ==
    [key |-> key, imported |-> imported, called |-> called, ret |-> ret]

LegacyResult(success, count, message) ==
    [success |-> success, count |-> count, message |-> message]

\* importlib.import_module fails, the module has no main(), main() raises,
\* or main() returns its list
LegacyOutcomes ==
    {[kind |-> k, data |-> <<>>] : k \in {"module_not_found", "no_main", "error"}}
    \cup {[kind |-> "ok", data |-> d] : d \in SeqsUpTo(OpLinks, MaxOpLinks)}

SetResult(key, result) ==
    results' = [k \in DOMAIN results \cup {key} |-> IF k = key THEN result ELSE results[k]]

\* the process makes one run_scraper call (scripts/run_single_scraper.py)
LegacyReady == orch.pc = "idle" /\ pb.pc = "idle" /\ exec_log = <<>>

\* self.batch_processor.process_batch(urls, scraper_info['name']): no scraper_key
LegacyBatchKey(entry) == NoKey

\* run_scraper with a category or key the registry does not hold (lines 49-55)
LegacyUnknown ==
    /\ LegacyReady
    /\ exec_log' = Append(exec_log, LegacyCall(NoKey, FALSE, FALSE, "absent"))
    /\ UNCHANGED <<bp_vars, file_vars, clock, call_vars, scraper_registry, side_vars, orch, results,
                   digest_urls, digest_by_scraper, last_exec, digest_log>>

\* run_scraper(category, scraper_key) up to its return or to the first send
\* of the process_batch call it makes
LegacyRunScraper(cat, idx, outcome) ==
    /\ LegacyReady
    /\ cat \in 1..Len(scraper_registry) /\ idx \in 1..Len(scraper_registry[cat])
    /\ LET entry == scraper_registry[cat][idx]
           Return(result, imported, called, ret) ==
               /\ SetResult(entry.key, result)
               /\ exec_log' = Append(exec_log, LegacyCall(entry.key, imported, called, ret))
               /\ orch' = [pc |-> "idle", cat |-> cat, idx |-> idx]
               /\ UNCHANGED <<bp_vars, file_vars, clock, call_vars>>
       IN IF ~IsEnabled(entry)
          THEN Return(LegacyResult(FALSE, 0, "Disabled"), FALSE, FALSE, "absent")
          ELSE IF outcome.kind = "module_not_found"
          THEN Return(LegacyResult(FALSE, 0, "Module not found"), FALSE, FALSE, "absent")
          ELSE IF outcome.kind = "no_main"
          THEN Return(LegacyResult(FALSE, 0, "No main() function"), TRUE, FALSE, "absent")
          ELSE IF outcome.kind = "error"
          THEN Return(LegacyResult(FALSE, 0, "exception"), TRUE, TRUE, "absent")
          ELSE IF outcome.data = <<>>
          THEN Return(LegacyResult(TRUE, 0, "No URLs found"), TRUE, TRUE, "empty")
          ELSE /\ process_batch_begin(outcome.data, LegacyBatchKey(entry))
               /\ orch' = [pc |-> "legacy_batch", cat |-> cat, idx |-> idx]
               /\ UNCHANGED <<results, exec_log>>
    /\ UNCHANGED <<scraper_registry, side_vars, digest_urls, digest_by_scraper, last_exec, digest_log>>

\* process_batch has returned: lines 92-99 of run_scraper, which returns urls
LegacyBatchReturned ==
    /\ orch.pc = "legacy_batch"
    /\ pb.pc = "done"
    /\ SetResult(CurrentEntry.key, LegacyResult(TRUE, Len(pb.all_urls), "URLs scraped"))
    /\ exec_log' = Append(exec_log, LegacyCall(CurrentEntry.key, TRUE, TRUE, "urls"))
    /\ orch' = [orch EXCEPT !.pc = "idle"]
    /\ pb' = IdleCall
    /\ mail_log' = <<>>
    /\ UNCHANGED <<bp_vars, file_vars, clock, scraper_registry, side_vars,
                   digest_urls, digest_by_scraper, last_exec, digest_log>>

\* ScraperOrchestrator(): one BatchProcessor, an empty results dict
LegacyInit ==
    /\ \E e2 \in BOOLEAN : scraper_registry = Registry(TRUE, e2, TRUE)
    /\ \E size \in 1..MaxBatchSize, snapshot \in SUBSET PriorUrls,
          lastrun \in {<<>>, StaleLastRun} :
          Constructed(size, snapshot, NoProgressFile, lastrun)
    /\ pb = IdleCall
    /\ mail_log = <<>>
    /\ OrchIdle

LegacyNext ==
    \/ LegacyUnknown
    \/ \E cat \in 1..2, idx \in 1..2, outcome \in LegacyOutcomes :
          LegacyRunScraper(cat, idx, outcome)
    \/ \E success \in BOOLEAN : SendBatch(success)
    \/ InterBatchDelay
    \/ LegacyBatchReturned

SpecLegacy == LegacyInit /\ [][LegacyNext]_vars

\* ------------------------------------------------------------------ BaseScraper.fetch_page
MaxRetries == 3      \* largest configured max_retries

RECURSIVE Pow2(_)
Pow2(n) == IF n = 0 THEN 1 ELSE 2 * Pow2(n - 1)

\* what one session.get / raise_for_status / BeautifulSoup round produces: a
\* page, HTTPError 403, another HTTPError, another RequestException (timeout,
\* connection error), or any other exception
Responses == {"ok", "http_403", "http_other", "request_error", "other_error"}

GetEvent(url, response) == [kind |-> "get", url |-> url, response |-> response, seconds |-> 0]
BackoffEvent(seconds) == [kind |-> "sleep", url |-> None, response |-> "none", seconds |-> seconds]

\* mutant: the retry test lets one more attempt through
CanRetry_inclusive(retry_count, max_retries) == retry_count <= max_retries

\* `retry_count < self.max_retries`
CanRetry(retry_count, max_retries) == retry_count < max_retries

other_vars == <<bp_vars, file_vars, clock, call_vars, orch_vars, run, settings,
               breach, tracker, script>>

\* a scraper calls fetch_page(url)
FetchPage(url) ==
    /\ fetch.pc = "idle"
    /\ fetch' = [fetch EXCEPT !.pc = "get", !.url = url, !.retry_count = 0]
    /\ UNCHANGED other_vars

\* one pass through the try block and its except clauses (lines 200-229)
FetchAttempt(response) ==
    /\ fetch.pc = "get"
    /\ LET logged == [fetch EXCEPT !.log = Append(@, GetEvent(fetch.url, response))]
           retry == CanRetry(fetch.retry_count, fetch.max_retries)
       IN fetch' =
            IF response = "ok"
            THEN [logged EXCEPT !.pc = "returned", !.ret = "soup"]
            ELSE IF response \in {"http_403", "request_error"} /\ retry
            THEN [logged EXCEPT !.pc = "sleep"]
            ELSE [logged EXCEPT !.pc = "returned", !.ret = "absent"]
    /\ UNCHANGED other_vars

\* time.sleep(2 ** retry_count), then the recursive call fetch_page(url, retry_count + 1)
FetchBackoff ==
    /\ fetch.pc = "sleep"
    /\ fetch' = [fetch EXCEPT !.pc = "get",
                              !.log = Append(@, BackoffEvent(Pow2(fetch.retry_count))),
                              !.retry_count = @ + 1]
    /\ UNCHANGED other_vars

\* BaseScraper.__init__ reads max_retries from SCRAPER_CONFIG
FetchInit ==
    /\ Constructed(MaxBatchSize, {}, NoProgressFile, <<>>)
    /\ pb = IdleCall
    /\ mail_log = <<>>
    /\ scraper_registry = Registry(TRUE, TRUE, TRUE)
    /\ orch = [pc |-> "idle", cat |-> 1, idx |-> 1]
    /\ results = <<>>
    /\ digest_urls = <<>>
    /\ digest_by_scraper = <<>>
    /\ exec_log = <<>>
    /\ last_exec = NoExec
    /\ digest_log = <<>>
    /\ \E max_retries \in 0..MaxRetries : fetch = FetchIdle(max_retries)
    /\ SideRest

FetchNext ==
    \/ \E url \in Urls : FetchPage(url)
    \/ \E response \in Responses : FetchAttempt(response)
    \/ FetchBackoff

\* every GET returns or times out (timeout=self.timeout) and every sleep
\* ends, so a step that can be taken is taken
SpecFetch == FetchInit /\ [][FetchNext]_vars /\ WF_vars(FetchNext)

\* ------------------------------------------------------------------ BaseScraper.run
MaxRunRecords == 3   \* most records one scrape() collects

\* what open(filepath, 'w') followed by json.dump does: the file is written,
\* open raises (no file), or json.dump raises after the file was created
SaveOutcomes == {"ok", "open_failed", "dump_failed"}

NoSnapshot == [exists |-> FALSE, complete |-> FALSE, data |-> <<>>]

\* save_data (lines 423-448): the snapshot file it leaves, and whether it raises
save_data(data, outcome) ==
    CASE outcome = "ok" -> [exists |-> TRUE, complete |-> TRUE, data |-> data]
      [] outcome = "dump_failed" -> [exists |-> TRUE, complete |-> FALSE, data |-> <<>>]
      [] OTHER -> NoSnapshot

\* mutant: the snapshot is written whatever scraped_data holds
SaveDue_always(scraped_data) == TRUE

\* `if self.scraped_data:` (line 470)
SaveDue(scraped_data) == scraped_data # <<>>

\* `finally: self.session.close()` (lines 485-486)
SessionAfter(raised) == "closed"

run_others == <<bp_vars, file_vars, clock, call_vars, orch_vars, fetch, settings,
                breach, tracker, script>>

\* run() is entered: start is logged, scrape() begins
RunCall ==
    /\ run.pc = "idle"
    /\ run' = [run EXCEPT !.pc = "scrape"]
    /\ UNCHANGED run_others

\* the subclass's scrape() appends one record to self.scraped_data
ScrapeRecord(url) ==
    /\ run.pc = "scrape"
    /\ Len(run.scraped_data) < MaxRunRecords
    /\ run' = [run EXCEPT !.scraped_data = Append(@, url)]
    /\ UNCHANGED run_others

\* scrape() raises: the except clause logs and re-raises, finally closes the session
ScrapeRaises ==
    /\ run.pc = "scrape"
    /\ run' = [run EXCEPT !.pc = "raised", !.scrape = "raised", !.ret = "scrape_error",
                          !.session = SessionAfter(TRUE)]
    /\ UNCHANGED run_others

\* scrape() returns: save_data if any record, summary, return; an exception of
\* save_data is logged and re-raised twice over, finally closes the session
ScrapeReturns(outcome) ==
    /\ run.pc = "scrape"
    /\ LET due == SaveDue(run.scraped_data)
           failed == due /\ outcome # "ok"
       IN run' = [run EXCEPT !.scrape = "returned",
                             !.snapshot = IF due THEN save_data(run.scraped_data, outcome) ELSE @,
                             !.pc = IF failed THEN "raised" ELSE "returned",
                             !.ret = IF failed THEN "save_error" ELSE "scraped_data",
                             !.session = SessionAfter(failed)]
    /\ UNCHANGED run_others

\* a scraper instance fresh from BaseScraper.__init__
RunInit ==
    /\ Constructed(MaxBatchSize, {}, NoProgressFile, <<>>)
    /\ pb = IdleCall
    /\ mail_log = <<>>
    /\ scraper_registry = Registry(TRUE, TRUE, TRUE)
    /\ OrchIdle

RunNext ==
    \/ RunCall
    \/ \E url \in Urls : ScrapeRecord(url)
    \/ ScrapeRaises
    \/ \E outcome \in SaveOutcomes : ScrapeReturns(outcome)

SpecRun == RunInit /\ [][RunNext]_vars

\* ------------------------------------------------------------------ settings.is_date_filtering_enabled
\* 'date_filtering' of a registry entry: key missing, True or False
FlagValues == {"unset", "on", "off"}

\* keys a scraper may carry: the registry's, one of GENERIC_SCRAPERS_REGISTRY
\* (settings.py line 384) and one derived from a display name (base_scraper.py line 51)
SettingsKeys == {"clarkson", "crosner", "ny_ag", "brannlaw", "my_scraper"}

\* no registry entry: get_scraper_info returns None
NoEntry == [key |-> NoKey, name |-> NoKey, enabled |-> FALSE]

\* get_scraper_info (lines 571-585): the entry under the key in any category, or None
get_scraper_info(registry, scraper_key) ==
    LET entries == Flatten(registry)
        found == {j \in 1..Len(entries) : entries[j].key = scraper_key}
    IN IF found = {} THEN NoEntry ELSE entries[CHOOSE j \in found : TRUE]

\* is_date_filtering_enabled (lines 604-623)
is_date_filtering_enabled(registry, flags, global, scraper_key) ==
    IF get_scraper_info(registry, scraper_key) = NoEntry THEN FALSE
    ELSE IF flags[scraper_key] # "unset" THEN flags[scraper_key] = "on"
    ELSE global

settings_others == <<bp_vars, file_vars, clock, call_vars, orch_vars, fetch, run,
                     breach, tracker, script>>

\* BaseScraper.__init__ (line 65) or any caller asks for a key
IsDateFilteringEnabled(scraper_key) ==
    /\ settings.pc = "idle"
    /\ settings' = [settings EXCEPT
          !.pc = "returned", !.key = scraper_key,
          !.ret = is_date_filtering_enabled(scraper_registry, settings.date_filtering,
                                            settings.enable_date_filtering, scraper_key)]
    /\ UNCHANGED settings_others

\* the helper returned; the next caller may ask
SettingsReturn ==
    /\ settings.pc = "returned"
    /\ settings' = [settings EXCEPT !.pc = "idle", !.key = NoKey, !.ret = FALSE]
    /\ UNCHANGED settings_others

\* settings.py as imported: any combination of entry flags and the global flag
SettingsInit ==
    /\ Constructed(MaxBatchSize, {}, NoProgressFile, <<>>)
    /\ pb = IdleCall
    /\ mail_log = <<>>
    /\ scraper_registry = Registry(TRUE, TRUE, TRUE)
    /\ orch = [pc |-> "idle", cat |-> 1, idx |-> 1]
    /\ results = <<>>
    /\ digest_urls = <<>>
    /\ digest_by_scraper = <<>>
    /\ exec_log = <<>>
    /\ last_exec = NoExec
    /\ digest_log = <<>>
    /\ fetch = NoFetch
    /\ run = NoRun
    /\ breach = NoBreach
    /\ tracker = NoTracker
    /\ script = NoScript
    /\ \E flags \in [{"clarkson", "crosner", "ny_ag"} -> FlagValues], global \in BOOLEAN :
          settings = [ShippedSettings EXCEPT !.date_filtering = flags,
                                             !.enable_date_filtering = global]

SettingsNext ==
    \/ \E scraper_key \in SettingsKeys : IsDateFilteringEnabled(scraper_key)
    \/ SettingsReturn

SpecSettings == SettingsInit /\ [][SettingsNext]_vars

\* ------------------------------------------------------------------ settings.validate_config
\* config/email_config.json: absent, not parseable, or a JSON object whose keys
\* are each missing, falsy or truthy
EmailConfigFiles ==
    {[exists |-> FALSE, parses |-> FALSE, content |-> EmptyConfig],
     [exists |-> TRUE, parses |-> FALSE, content |-> EmptyConfig]}
    \cup {[exists |-> TRUE, parses |-> TRUE, content |-> c] : c \in [EmailKeys -> FieldStates]}

\* load_email_config (lines 134-155, the definition in force at line 159): {} for
\* an absent or unreadable file, else the parsed object as it is
load_email_config(file) ==
    IF ~file.exists THEN EmptyConfig
    ELSE IF ~file.parses THEN EmptyConfig
    ELSE file.content

\* EMAIL_CONFIG[key] raises KeyError for a key that is not in the dictionary
Subscriptable(config) == \A k \in EmailKeys : config[k] # "missing"

\* the warnings list of lines 691-708 is empty
NoWarnings(config, dirs) ==
    /\ \A k \in EmailKeys : config[k] = "set"
    /\ RequiredDirs \subseteq dirs

\* validate_config (lines 689-725): the first subscript of an absent key raises
\* before anything is returned
ValidateConfig ==
    /\ settings.validate.pc = "idle"
    /\ settings' = [settings EXCEPT !.validate =
          IF ~Subscriptable(settings.email_config)
          THEN [pc |-> "done", raised |-> TRUE, ret |-> FALSE]
          ELSE [pc |-> "done", raised |-> FALSE,
                ret |-> NoWarnings(settings.email_config, settings.dirs)]]
    /\ UNCHANGED settings_others

\* the caller has the outcome; validate_config may be called again
ValidateReturn ==
    /\ settings.validate.pc = "done"
    /\ settings' = [settings EXCEPT !.validate = NoValidate]
    /\ UNCHANGED settings_others

\* a data directory is removed after the import created it
DirectoryRemoved(d) ==
    /\ settings.validate.pc = "idle"
    /\ d \in settings.dirs
    /\ settings' = [settings EXCEPT !.dirs = @ \ {d}]
    /\ UNCHANGED settings_others

\* settings.py as imported with any email_config.json
ValidateInit ==
    /\ Constructed(MaxBatchSize, {}, NoProgressFile, <<>>)
    /\ pb = IdleCall
    /\ mail_log = <<>>
    /\ scraper_registry = Registry(TRUE, TRUE, TRUE)
    /\ orch = [pc |-> "idle", cat |-> 1, idx |-> 1]
    /\ results = <<>>
    /\ digest_urls = <<>>
    /\ digest_by_scraper = <<>>
    /\ exec_log = <<>>
    /\ last_exec = NoExec
    /\ digest_log = <<>>
    /\ fetch = NoFetch
    /\ run = NoRun
    /\ breach = NoBreach
    /\ tracker = NoTracker
    /\ script = NoScript
    /\ \E file \in EmailConfigFiles :
          settings = [ShippedSettings EXCEPT !.email_config = load_email_config(file)]

ValidateNext ==
    \/ ValidateConfig
    \/ ValidateReturn
    \/ \E d \in RequiredDirs : DirectoryRemoved(d)

SpecValidate == ValidateInit /\ [][ValidateNext]_vars

\* ------------------------------------------------------------------ URL normalisation and the cache
MaxCached == 2       \* most URLs registered in the cache before the test

\* a URL string by its parts: scheme https, host, path, trailing slash or not
UrlHosts == {"Example.com", "example.com"}
UrlPaths == {"/Path", "/path", "/other"}
UrlStrings == [host : UrlHosts, path : UrlPaths, slash : BOOLEAN]

\* str.lower()
Lower(str) ==
    CASE str = "Example.com" -> "example.com"
      [] str = "/Path" -> "/path"
      [] str \in {"Acme", "ACME"} -> "acme"
      [] str = "YES" -> "yes"
      [] str = "CROSNER" -> "crosner"
      [] str = "Clarkson Law Firm" -> "clarkson law firm"
      [] str = "Crosner Legal" -> "crosner legal"
      [] str = "New York AG" -> "new york ag"
      [] str = "Beta" -> "beta"
      [] OTHER -> str

\* utils.url_utils.normalize_url (lines 11-37): scheme and netloc lowered,
\* path.rstrip('/') with its case kept, query and fragment dropped
normalize_url(url) ==
    [host |-> Lower(url.host), path |-> url.path, slash |-> FALSE]

\* BaseScraper.normalize_url (lines 134-153): scheme://netloc/path, rstrip('/'), lower()
BaseScraper_normalize_url(url) ==
    [host |-> Lower(url.host), path |-> Lower(url.path), slash |-> FALSE]

\* _add_url_to_cache(url) with a string item (lines 201-207)
AddUrlToCache(url) ==
    /\ pb.pc = "idle"
    /\ Cardinality(existing_urls) < MaxCached
    /\ existing_urls' = existing_urls \cup {url}
    /\ url_hashes' = url_hashes \cup {md5(url)}
    /\ UNCHANGED <<sent_urls, last_run_times, batch_size, file_vars, clock, call_vars>>
    /\ UNCHANGED <<orch_vars, side_vars>>

\* a BatchProcessor with nothing on disk
UrlInit ==
    /\ Constructed(MaxBatchSize, {}, NoProgressFile, <<>>)
    /\ pb = IdleCall
    /\ mail_log = <<>>
    /\ scraper_registry = Registry(TRUE, TRUE, TRUE)
    /\ OrchIdle

UrlNext ==
    \/ \E url \in UrlStrings : AddUrlToCache(url)
    \/ \E url \in UrlStrings : IsDuplicateCall(url)
    \/ CallReturn

SpecUrl == UrlInit /\ [][UrlNext]_vars

\* ------------------------------------------------------------------ USATodayBreachesScraper.scrape
MaxRows == 3         \* most table rows one scrape() call reads, all pages together
MaxPages == 2        \* max_pages

\* the cell texts of a table row; cells = 3 stands for a row with fewer than
\* four cells or one whose cells cannot be read (the inner except)
BreachDates == {"01/05/2026", "01/05/2020"}
BreachRows ==
    [cells : {7}, company : {"Acme", "ACME", "Beta", ""}, state : {"CA"},
     breach_date : BreachDates, people_affected : {"100"},
     breach_type : {"Hacking", "Theft"}]
    \cup [cells : {3}, company : {"Acme"}, state : {"CA"}, breach_date : {"01/05/2026"},
          people_affected : {"100"}, breach_type : {"Hacking"}]

\* is_recent(parse_date(text), days_back): the date lies in the window
is_recent(breach_date) == breach_date = "01/05/2026"

\* mutant: the people-affected and date texts are left out of the hash
create_breach_hash_company_only(company, state, breach_date, people_affected) ==
    md5(<<Lower(company), Lower(state)>>)

\* create_breach_hash (lines 71-77): md5 of the lower-cased "c|s|d|p" string
create_breach_hash(company, state, breach_date, people_affected) ==
    md5(<<Lower(company), Lower(state), Lower(breach_date), Lower(people_affected)>>)

\* breach_info (lines 206-222); the url ends in the first 12 digits of the hash
BreachInfo(row, breach_hash) ==
    [url |-> <<"usatoday", breach_hash>>, breach_hash |-> breach_hash,
     company |-> row.company, state |-> row.state, breach_date |-> row.breach_date,
     people_affected |-> row.people_affected, breach_type |-> row.breach_type]

\* the row is skipped before hashing: `len(cells) < 4`, `not company`
RowSkipped(row) == row.cells < 4 \/ row.company = ""

breach_others == <<bp_vars, file_vars, clock, call_vars, orch_vars, fetch, run, settings,
                   tracker, script>>

\* mutant: the page budget is checked with <=
CanAdvance_inclusive(page_number, max_pages) == page_number <= max_pages

\* `if page_number < max_pages` (line 236): another page may be asked for
CanAdvance(page_number, max_pages) == page_number < max_pages

\* `finally: if driver: driver.quit()` (lines 253-255)
QuitDriver(driver) == IF driver = "open" THEN "quit" ELSE driver

\* scrape() is called: driver set up, first page loaded
BreachScrape ==
    /\ breach.pc = "idle"
    /\ breach' = [breach EXCEPT !.pc = "page", !.page_number = 1, !.driver = "open"]
    /\ UNCHANGED breach_others

\* scrape() is called and setup_driver raises (line 137): driver is still None,
\* the outer except prints the error and the empty results are returned
BreachSetupFails ==
    /\ breach.pc = "idle"
    /\ breach' = [breach EXCEPT !.pc = "returned", !.stop = "error",
                                !.driver = QuitDriver(breach.driver)]
    /\ UNCHANGED breach_others

\* the body of `for idx, element in enumerate(breach_elements)` for one row
BreachRow(row) ==
    /\ breach.pc = "page"
    /\ Len(breach.rows) < MaxRows
    /\ LET breach_hash == create_breach_hash(row.company, row.state, row.breach_date,
                                             row.people_affected)
           read == [breach EXCEPT !.rows = Append(@, row), !.page_has_rows = TRUE]
       IN breach' =
            IF RowSkipped(row) THEN read
            ELSE IF breach_hash \in breach.seen_hashes
            THEN [read EXCEPT !.page_duplicates = @ + 1]
            ELSE IF is_recent(row.breach_date)
            THEN [read EXCEPT !.seen_hashes = @ \cup {breach_hash},
                              !.results = Append(@, BreachInfo(row, breach_hash))]
            ELSE [read EXCEPT !.seen_hashes = @ \cup {breach_hash}]
    /\ UNCHANGED breach_others

\* end of a page that had rows, click_next_page succeeded (lines 236-240): the
\* page's duplicates are added
BreachNextPage ==
    /\ breach.pc = "page"
    /\ breach.page_has_rows
    /\ CanAdvance(breach.page_number, MaxPages)
    /\ breach' = [breach EXCEPT !.total_duplicates = @ + breach.page_duplicates,
                                !.page_duplicates = 0,
                                !.page_number = @ + 1,
                                !.advances = @ + 1,
                                !.page_log = Append(@, breach.page_has_rows),
                                !.page_has_rows = FALSE]
    /\ UNCHANGED breach_others

\* the loop ends: the page has no rows (line 151, before the page's totals
\* are added), click_next_page returned False (line 237) or max_pages is
\* reached (line 241); the totals are printed, the driver quit and results returned
BreachFinish ==
    /\ breach.pc = "page"
    /\ breach' = [breach EXCEPT
          !.pc = "returned",
          !.total_duplicates = @ + breach.page_duplicates,
          !.page_duplicates = 0,
          !.reported = breach.total_duplicates + breach.page_duplicates,
          !.page_log = Append(@, breach.page_has_rows),
          !.advances = IF breach.page_has_rows
                          /\ CanAdvance(breach.page_number, MaxPages)
                       THEN @ + 1 ELSE @,
          !.stop = IF ~breach.page_has_rows THEN "empty"
                   ELSE IF CanAdvance(breach.page_number, MaxPages) THEN "no_next"
                   ELSE "max_pages",
          !.driver = QuitDriver(breach.driver)]
    /\ UNCHANGED breach_others

\* the driver raises outside the row loop (driver.get, find_elements): the
\* outer except prints the error, no totals are printed, the driver is quit
\* and the results so far are returned
BreachError ==
    /\ breach.pc = "page"
    /\ breach' = [breach EXCEPT !.pc = "returned", !.stop = "error",
                                !.page_log = Append(@, breach.page_has_rows),
                                !.driver = QuitDriver(breach.driver)]
    /\ UNCHANGED breach_others

BreachInit ==
    /\ Constructed(MaxBatchSize, {}, NoProgressFile, <<>>)
    /\ pb = IdleCall
    /\ mail_log = <<>>
    /\ scraper_registry = Registry(TRUE, TRUE, TRUE)
    /\ OrchIdle

BreachNext ==
    \/ BreachScrape
    \/ BreachSetupFails
    \/ \E row \in BreachRows : BreachRow(row)
    \/ BreachNextPage
    \/ BreachFinish
    \/ BreachError

SpecBreach == BreachInit /\ [][BreachNext]_vars

\* the same scrape over three kinds of row; the driver's calls return or raise
\* and the table of a page is finite, so a step that can be taken is taken
PagingRows == {row \in BreachRows : row.company = "Acme" /\ row.breach_type = "Hacking"}

PagingNext ==
    \/ BreachScrape
    \/ BreachSetupFails
    \/ \E row \in PagingRows : BreachRow(row)
    \/ BreachNextPage
    \/ BreachFinish
    \/ BreachError

SpecPaging == BreachInit /\ [][PagingNext]_vars /\ WF_vars(PagingNext)

\* ------------------------------------------------------------------ main_usatoday_breaches.py
MaxBreaches == 2     \* most records the scrapers of one run return
MaxRuns == 2         \* runs of the script, one after the other

\* a record without the key: url_dict.get(key, default) yields the default
AbsentField == "absent"

\* what a scraper of USATODAY_REGISTRY returns: 'breach_hash' missing, empty
\* or a digest; 'url' empty or a URL
TrackerRecords ==
    {[breach_hash |-> "h1", url |-> "u1"], [breach_hash |-> "h2", url |-> "u2"],
     [breach_hash |-> "", url |-> "u1"],
     [breach_hash |-> AbsentField, url |-> "u1"], [breach_hash |-> AbsentField, url |-> "u2"],
     [breach_hash |-> AbsentField, url |-> ""]}

\* list(self.sent_urls): the elements in some order
SetToSeq(set) == CHOOSE seq \in [1..Cardinality(set) -> set] : Range(seq) = set

\* mutant: the tracking file is never read
load_sent_urls_empty(file) == {}

\* load_sent_urls (lines 21-30): set(json.load(f)), set() without a file
load_sent_urls(file) == IF file.exists THEN Range(file.data) ELSE {}

\* save_sent_urls (lines 32-36)
save_sent_urls(sent) == TrackingFile(TRUE, SetToSeq(sent))

\* url_dict.get('breach_hash', url_dict.get('url', '')) (lines 44, 57)
identifier(url_dict) ==
    IF url_dict.breach_hash # AbsentField THEN url_dict.breach_hash ELSE url_dict.url

\* `if identifier and identifier not in self.sent_urls` (line 46)
IsNewBreach(url_dict, sent) == identifier(url_dict) # "" /\ identifier(url_dict) \notin sent

\* filter_new_urls (lines 38-52)
RECURSIVE filter_new_urls(_, _)
filter_new_urls(urls, sent) ==
    IF urls = <<>> THEN <<>>
    ELSE IF IsNewBreach(Head(urls), sent)
         THEN <<Head(urls)>> \o filter_new_urls(Tail(urls), sent)
         ELSE filter_new_urls(Tail(urls), sent)

\* mark_as_sent (lines 54-60): the identifiers added to self.sent_urls
mark_as_sent(urls, sent) ==
    sent \cup {identifier(urls[j]) : j \in {k \in 1..Len(urls) : identifier(urls[k]) # ""}}

tracker_others == <<bp_vars, file_vars, clock, call_vars, orch_vars, fetch, run, settings,
                    breach, script>>

\* one run of main(): tracker built from the file, the scrapers return
\* all_breaches, filter, one email whose send returns send_ok (the result is
\* not looked at, lines 244-266), and mark_as_sent with save when something
\* was new
TrackerMain(all_breaches, send_ok) ==
    /\ tracker.runs < MaxRuns
    /\ LET loaded == load_sent_urls(tracker.file)
           new_breaches == filter_new_urls(all_breaches, loaded)
           sent == IF new_breaches = <<>> THEN loaded ELSE mark_as_sent(new_breaches, loaded)
       IN tracker' =
            [pc |-> "done", runs |-> tracker.runs + 1,
             file |-> IF new_breaches = <<>> THEN tracker.file ELSE save_sent_urls(sent),
             sent_urls |-> sent,
             all_breaches |-> all_breaches,
             new_breaches |-> new_breaches,
             email |-> [kind |-> IF new_breaches = <<>> THEN "no_new" ELSE "new",
                        records |-> new_breaches, ok |-> send_ok],
             file_before |-> tracker.file,
             marked_before |-> tracker.marked,
             marked |-> IF new_breaches = <<>> THEN tracker.marked
                        ELSE tracker.marked \cup
                               {identifier(new_breaches[j]) : j \in 1..Len(new_breaches)}]
    /\ UNCHANGED tracker_others

TrackerInit ==
    /\ Constructed(MaxBatchSize, {}, NoProgressFile, <<>>)
    /\ pb = IdleCall
    /\ mail_log = <<>>
    /\ scraper_registry = Registry(TRUE, TRUE, TRUE)
    /\ OrchIdle

TrackerNext ==
    \E all_breaches \in SeqsUpTo(TrackerRecords, MaxBreaches), send_ok \in BOOLEAN :
        TrackerMain(all_breaches, send_ok)

SpecTracker == TrackerInit /\ [][TrackerNext]_vars

\* ------------------------------------------------------------------ scripts/reset_progress.py
\* what the operator may type at the prompt
TypedAnswers == {"yes", "YES", " yes ", "y", "no", ""}

\* str.strip()
Strip(str) == IF str = " yes " THEN "yes" ELSE str

\* mutant: the reset goes ahead whatever was typed
IsConfirmed_always(response) == TRUE

\* `if response != 'yes': ... sys.exit(0)` (lines 28-30)
IsConfirmed(response) == response = "yes"

script_others == <<batch_size, scraped_files, clock, call_vars, orch_vars, fetch, run, settings,
                   breach, tracker>>

\* main() of reset_progress.py: the prompt, then either sys.exit(0) or
\* BatchProcessor(), reset_progress() and reset_last_run_times()
ResetMain(typed) ==
    /\ script.pc = "idle"
    /\ LET response == Lower(Strip(typed))
           loaded == load_existing_data(scraped_files, progress_file)
           r == reset_progress(loaded.existing_urls, loaded.url_hashes, loaded.sent_urls)
       IN IF IsConfirmed(response)
          THEN /\ existing_urls' = r.existing_urls
               /\ url_hashes' = r.url_hashes
               /\ sent_urls' = r.sent_urls
               /\ progress_file' = save_progress(r.sent_urls)
               /\ last_run_times' = <<>>
               /\ last_run_file' = last_run_times'
               /\ script' = [script EXCEPT !.pc = "exited", !.name = "reset_progress",
                                           !.typed = typed, !.constructed = TRUE,
                                           !.status = 0, !.output = "reset complete"]
          ELSE /\ script' = [script EXCEPT !.pc = "exited", !.name = "reset_progress",
                                           !.typed = typed, !.status = 0,
                                           !.output = "reset cancelled"]
               /\ UNCHANGED <<existing_urls, url_hashes, sent_urls, progress_file,
                              last_run_times, last_run_file>>
    /\ UNCHANGED script_others

\* the files earlier runs left; this process has built no BatchProcessor yet
ResetInit ==
    /\ \E size \in 1..MaxBatchSize, snapshot \in SUBSET PriorUrls,
          progress \in ProgressFiles,
          lastrun \in {<<>>, [k \in {BatchKey} |-> StaleRecord(k)]} :
          /\ batch_size = size
          /\ scraped_files = snapshot
          /\ progress_file = progress
          /\ last_run_file = lastrun
    /\ existing_urls = {}
    /\ sent_urls = {}
    /\ url_hashes = {}
    /\ last_run_times = <<>>
    /\ clock = RunStart
    /\ pb = IdleCall
    /\ mail_log = <<>>
    /\ scraper_registry = Registry(TRUE, TRUE, TRUE)
    /\ OrchIdle

ResetNext == \E typed \in TypedAnswers : ResetMain(typed)

SpecReset == ResetInit /\ [][ResetNext]_vars

\* ------------------------------------------------------------------ scripts/run_single_scraper.py
\* sys.argv[1]: a key, a key in capitals, a display name, or a name of no scraper
ScraperNames == {"clarkson", "CROSNER", "Clarkson Law Firm", "ny_ag", "nosuch"}

\* the loop of run_specific_scraper (lines 217-222): the positions whose key
\* or display name equals the name, case-insensitively
Resolve(registry, scraper_name) ==
    {pos \in {<<cat, idx>> : cat \in 1..Len(registry), idx \in 1..2} :
        /\ pos[2] <= Len(registry[pos[1]])
        /\ \/ Lower(registry[pos[1]][pos[2]].key) = Lower(scraper_name)
           \/ Lower(registry[pos[1]][pos[2]].name) = Lower(scraper_name)}

\* main() up to the call: argv read, ScraperOrchestrator() built
SingleStart(scraper_name) ==
    /\ script.pc = "idle"
    /\ LegacyReady
    /\ script' = [script EXCEPT !.pc = "running", !.name = "run_single_scraper",
                                !.typed = scraper_name, !.constructed = TRUE]
    /\ UNCHANGED <<bp_vars, file_vars, clock, call_vars, orch_vars, fetch, run, settings,
                   breach, tracker>>

\* run_specific_scraper(scraper_name): run_scraper on the first match, or
\* 'Scraper not found' and None
RunSpecificScraper(outcome) ==
    /\ script.pc = "running"
    /\ LegacyReady
    /\ LET found == Resolve(scraper_registry, script.typed)
           first == CHOOSE pos \in found :
                       \A other \in found : pos[1] < other[1] \/
                                            (pos[1] = other[1] /\ pos[2] <= other[2])
       IN IF found = {}
          THEN /\ exec_log' = Append(exec_log, LegacyCall(NoKey, FALSE, FALSE, "absent"))
               /\ UNCHANGED <<bp_vars, file_vars, clock, call_vars, scraper_registry, side_vars,
                              orch, results, digest_urls, digest_by_scraper, last_exec,
                              digest_log>>
          ELSE LegacyRunScraper(first[1], first[2], outcome)

\* main() after the call: `if result is None` the 'not found' message and
\* sys.exit(1), else print_summary()
SingleExit ==
    /\ script.pc = "running"
    /\ orch.pc = "idle" /\ pb.pc = "idle"
    /\ exec_log # <<>>
    /\ script' = IF exec_log[1].ret = "absent"
                 THEN [script EXCEPT !.pc = "exited", !.status = 1, !.output = "not found"]
                 ELSE [script EXCEPT !.pc = "exited", !.status = 0, !.output = "summary"]
    /\ UNCHANGED <<bp_vars, file_vars, clock, call_vars, orch_vars, fetch, run, settings,
                   breach, tracker>>

SingleInit == LegacyInit

SingleNext ==
    \/ \E scraper_name \in ScraperNames : SingleStart(scraper_name)
    \/ \E outcome \in LegacyOutcomes : RunSpecificScraper(outcome)
    \/ \E success \in BOOLEAN : SendBatch(success)
    \/ InterBatchDelay
    \/ LegacyBatchReturned
    \/ SingleExit

SpecSingle == SingleInit /\ [][SingleNext]_vars

\* ------------------------------------------------------------------ process_batch called again after a failure
\* the call returned False; the caller hands the same list to process_batch
\* of the same BatchProcessor once more
RetryCall ==
    /\ pb.pc = "done" /\ pb.ret = "false"
    /\ process_batch_entry(pb.all_urls, pb.scraper_key)
    /\ UNCHANGED <<orch_vars, side_vars>>

RetryInit == BatchInit

RetryNext ==
    \/ \E all_urls \in SeqsUpTo(BatchLinks, MaxLinks), key \in {NoKey, BatchKey} :
          ProcessBatchCall(all_urls, key)
    \/ \E success \in BOOLEAN : SendBatch(success)
    \/ InterBatchDelay
    \/ RetryCall

SpecRetry == RetryInit /\ [][RetryNext]_vars

\* ------------------------------------------------------------------ digest runs, one process after the other
\* the process of the finished run has ended; the next one starts:
\* ScraperOrchestrator() builds a BatchProcessor over the files as they are now
NextProcess ==
    /\ orch.pc = "done"
    /\ Len(digest_log) < MaxRuns
    /\ LET loaded == load_existing_data(scraped_files, progress_file)
       IN /\ existing_urls' = loaded.existing_urls
          /\ sent_urls' = loaded.sent_urls
          /\ url_hashes' = loaded.url_hashes
    /\ last_run_times' = last_run_file
    /\ orch' = [pc |-> "idle", cat |-> 1, idx |-> 1]
    /\ results' = <<>>
    /\ digest_urls' = <<>>
    /\ digest_by_scraper' = <<>>
    /\ exec_log' = <<>>
    /\ last_exec' = NoExec
    /\ UNCHANGED <<batch_size, file_vars, clock, call_vars, scraper_registry, side_vars,
                   digest_log>>

\* the first run starts over the snapshots of earlier runs, no digest sent yet
RerunInit ==
    /\ \E e3 \in BOOLEAN : scraper_registry = Registry(TRUE, FALSE, e3)
    /\ \E snapshot \in SUBSET PriorUrls :
          Constructed(MaxBatchSize, snapshot, NoProgressFile, <<>>)
    /\ pb = IdleCall
    /\ mail_log = <<>>
    /\ OrchIdle

RerunNext ==
    \/ RunAllStart
    \/ SkipDisabled
    \/ \E outcome \in Outcomes : ExecuteScraper(outcome)
    \/ \E success \in BOOLEAN : SendDailyDigest(success)
    \/ NextProcess

SpecRerun == RerunInit /\ [][RerunNext]_vars

\* ------------------------------------------------------------------ properties of process_batch
IsSend(e) == e.kind = "send"
IsSleep(e) == e.kind = "sleep"
Sends == SelectSeq(mail_log, IsSend)
Sleeps == SelectSeq(mail_log, IsSleep)
InputUrl(j) == pb.all_urls[j].url
UniqueUrl(j) == pb.unique_links[j].url

\* the least t with t * b >= n
CeilDiv(n, b) == CHOOSE t \in 0..n : t * b >= n /\ (t - 1) * b < n

Returned(r) == pb.pc = "done" /\ pb.ret = r

\* the call has sent at least one batch and no send failed
AllSendsSucceeded == Returned("true") /\ pb.unique_links # <<>>

\* every item of a non-empty input survived filter_unique_urls
AllSurvive == Len(pb.all_urls) >= 1 /\ pb.unique_links = pb.all_urls

\* C1: N >= 1 input URLs that all survive filtering, batch size B, every send
\* succeeding: the notifier is invoked exactly ceil(N/B) times, the k-th time
\* with the k-th consecutive slice of B input URLs, the last with the remainder.
C1_BatchPartition ==
    (AllSendsSucceeded /\ AllSurvive) =>
        LET N == Len(pb.all_urls)
            T == CeilDiv(N, batch_size)
        IN /\ Len(Sends) = T
           /\ \A k \in 1..T :
                 LET first == (k - 1) * batch_size
                     size == Min(k * batch_size, N) - first
                 IN /\ Sends[k].ok
                    /\ Sends[k].urls = [j \in 1..size |-> InputUrl(first + j)]
                    /\ size = IF k < T THEN batch_size ELSE N - (T - 1) * batch_size

C1_Witness ==
    /\ AllSendsSucceeded /\ AllSurvive
    /\ Len(pb.all_urls) = 3 /\ batch_size = 2
    /\ Len(Sends) = 2 /\ Len(Sends[1].urls) = 2 /\ Len(Sends[2].urls) = 1

\* C2: a failed send is the last thing the call does: it returns false, the
\* URLs of the batches before it are in sent_urls, the URLs of the failed batch
\* and of all later batches are not, and every send before it succeeded.
C2_AbortOnFailure ==
    /\ \A j \in 1..Len(mail_log) :
          (IsSend(mail_log[j]) /\ ~mail_log[j].ok) =>
              LET k == Len(Sends)
                  done == (k - 1) * batch_size
              IN /\ j = Len(mail_log)
                 /\ Returned("false")
                 /\ \A m \in 1..Len(pb.unique_links) :
                       UniqueUrl(m) \in sent_urls <=> m <= done
    /\ \A k \in 2..Len(Sends) : Sends[k - 1].ok
    /\ Returned("false") => (Sends # <<>> /\ ~Sends[Len(Sends)].ok)

C2_Witness ==
    /\ Returned("false")
    /\ Len(Sends) = 2 /\ batch_size = 2 /\ Len(pb.unique_links) = 3
    /\ UniqueUrl(1) \in sent_urls /\ UniqueUrl(3) \notin sent_urls

\* the URLs of this call that a successful send delivered
DeliveredInCall == UNION {Range(Sends[k].urls) : k \in {m \in 1..Len(Sends) : Sends[m].ok}}

\* C3 (as claimed): after a send failed in a call given a scraper key, the
\* key's last-run record has last_success = false and urls_found = the number
\* of unique URLs not yet successfully sent.
C3_FailureStampsRemaining ==
    (Returned("false") /\ pb.scraper_key # NoKey) =>
        /\ pb.scraper_key \in DOMAIN last_run_times
        /\ last_run_times[pb.scraper_key].last_success = FALSE
        /\ last_run_times[pb.scraper_key].urls_found =
              Len(pb.unique_links) - Cardinality(DeliveredInCall)

\* C4: every send succeeded and sent_urls was empty at the call: the unique
\* URLs are exactly sent_urls, the progress file lists exactly them with
\* total_sent = N, the call returns true and a given key's last-run record
\* shows success with urls_found = N.
C4_FullSuccessPersisted ==
    (AllSendsSucceeded /\ pb.sent_at_call = {}) =>
        LET N == Len(pb.unique_links)
            U == {UniqueUrl(m) : m \in 1..N}
        IN /\ Cardinality(U) = N
           /\ sent_urls = U
           /\ progress_file.exists
           /\ progress_file.sent_urls = U
           /\ progress_file.total_sent = N
           /\ pb.ret = "true"
           /\ pb.scraper_key # NoKey =>
                 /\ pb.scraper_key \in DOMAIN last_run_times
                 /\ last_run_times[pb.scraper_key].last_success = TRUE
                 /\ last_run_times[pb.scraper_key].urls_found = N
                 /\ last_run_times[pb.scraper_key].last_run >= RunStart
                 /\ last_run_file = last_run_times

C4_Witness ==
    /\ AllSendsSucceeded /\ pb.sent_at_call = {}
    /\ Len(pb.unique_links) = 3 /\ progress_file.total_sent = 3
    /\ pb.scraper_key # NoKey

\* C5: a delay is taken only directly after a successful send that is not the
\* last batch; consecutive sends are always separated by one delay; when all
\* T sends succeed there are exactly T-1 delays and none after the last send.
C5_DelayBetweenBatches ==
    LET T == CeilDiv(Len(pb.unique_links), batch_size) IN
    /\ \A j \in 1..Len(mail_log) :
          IsSleep(mail_log[j]) =>
              /\ j >= 2
              /\ IsSend(mail_log[j - 1]) /\ mail_log[j - 1].ok
              /\ Len(SelectSeq(SubSeq(mail_log, 1, j), IsSend)) < T
    /\ \A j \in 1..Len(mail_log) :
          (IsSend(mail_log[j]) /\ j >= 2) => IsSleep(mail_log[j - 1])
    /\ pb.pc = "done" => (mail_log = <<>> \/ IsSend(mail_log[Len(mail_log)]))
    /\ AllSendsSucceeded => (Len(Sends) = T /\ Len(Sleeps) = T - 1)

C5_Witness ==
    /\ AllSendsSucceeded
    /\ Len(Sends) = 3 /\ Len(Sleeps) = 2

\* ------------------------------------------------------------------ properties of the digest run
EntryEnabled(entry) == entry.enabled
EnabledKeys ==
    LET enabled == SelectSeq(AllEntries, EntryEnabled)
    IN [j \in 1..Len(enabled) |-> enabled[j].key]
ExecKeys == [j \in 1..Len(exec_log) |-> exec_log[j].key]
RunOver == orch.pc = "done"

\* C6: a digest-mode run_all_scrapers call invokes the notifier's digest send
\* exactly once, after the last enabled scraper has been executed, also when
\* nothing was accumulated or every scraper failed: no send before the loops
\* end, one send once the run is over, made when every enabled entry had run.
C6_DigestOncePerRun ==
    /\ Len(digest_log) <= 1
    /\ RunOver <=> Len(digest_log) = 1
    /\ digest_log # <<>> =>
          /\ digest_log[1].executed = Len(EnabledKeys)
          /\ ExecKeys = EnabledKeys
          /\ digest_log[1].total_urls = Len(digest_urls)

\* a finished run in which two scrapers ran, both failed, nothing was
\* accumulated, and the digest was sent
C6_Witness ==
    /\ RunOver
    /\ Len(exec_log) >= 2
    /\ \A k \in DOMAIN results : ~results[k].success
    /\ digest_urls = <<>>
    /\ Len(digest_log) = 1 /\ digest_log[1].total_urls = 0

\* C7: one run executes every enabled registry entry exactly once and no
\* disabled entry, categories in declaration order and scrapers in declaration
\* order within their category: the keys executed so far are a prefix of the
\* enabled keys in registry order, and all of them once the loops have ended.
C7_EnabledOnceInOrder ==
    /\ Len(ExecKeys) <= Len(EnabledKeys)
    /\ ExecKeys = SubSeq(EnabledKeys, 1, Len(ExecKeys))
    /\ orch.pc \in {"digest", "done"} => ExecKeys = EnabledKeys
    /\ DOMAIN results = Range(ExecKeys)

\* a finished run over a registry whose second law-firm entry is disabled:
\* the first category's enabled entry ran, then the second category's
C7_Witness ==
    /\ RunOver
    /\ ~scraper_registry[1][2].enabled
    /\ ExecKeys = <<"clarkson", "ny_ag">>

\* C8: an exception raised anywhere in _execute_scraper (import, instantiation,
\* run, duplicate filtering) leaves that scraper's result with success = false
\* and an error, and in every result success = true implies no error.
C8_ExceptionRecordedAsFailure ==
    /\ \A j \in 1..Len(exec_log) :
          exec_log[j].raised =>
              /\ ~results[exec_log[j].key].success
              /\ results[exec_log[j].key].error # NoError
    /\ \A k \in DOMAIN results : results[k].success => results[k].error = NoError

\* the records the digest accumulator holds for the scraper with display name nm
AcceptedFrom(nm) == IF nm \in DOMAIN digest_by_scraper THEN digest_by_scraper[nm] ELSE <<>>

RECURSIVE AcceptedUpTo(_)
AcceptedUpTo(n) ==
    IF n = 0 THEN <<>> ELSE AcceptedUpTo(n - 1) \o AcceptedFrom(exec_log[n].name)

FreshRecord(file, key) == key \in DOMAIN file /\ file[key].last_run >= RunStart

\* C10: after a digest send that returned success every enabled registry
\* entry, also one that contributed no URL, has a last-run record, in memory
\* and in the last-run file, stamped during this run.
C10_FreshLastRunAfterDigest ==
    (digest_log # <<>> /\ digest_log[1].ok) =>
        \A j \in 1..Len(AllEntries) :
            AllEntries[j].enabled =>
                /\ FreshRecord(last_run_times, AllEntries[j].key)
                /\ FreshRecord(last_run_file, AllEntries[j].key)

\* a successful digest after a run in which one enabled scraper contributed
\* a URL and another enabled scraper returned nothing
C10_Witness ==
    /\ RunOver /\ digest_log[1].ok
    /\ Len(digest_urls) >= 1
    /\ \E k \in DOMAIN results :
          /\ results[k].success /\ results[k].urls_found = 0
          /\ FreshRecord(last_run_file, k)
          /\ last_run_times[k].urls_found = 0

DigestSucceeded == digest_log # <<>> /\ digest_log[1].ok

\* C11: after a successful digest send the keys whose last-run record
\* send_daily_digest wrote are exactly the enabled registry entries:
\* contributors carry their accepted-URL count, every other enabled entry
\* count 0, and the record of a disabled entry is left as it was.
C11_StampedExactlyEnabled ==
    DigestSucceeded =>
        \A j \in 1..Len(AllEntries) :
            LET entry == AllEntries[j] IN
            /\ entry.enabled =>
                  /\ FreshRecord(last_run_times, entry.key)
                  /\ last_run_times[entry.key].urls_found = Len(AcceptedFrom(entry.name))
                  /\ last_run_times[entry.key].last_success
            /\ ~entry.enabled => ~FreshRecord(last_run_times, entry.key)

\* the step is a send_daily_digest call whose send returned failure
DigestSendFailed ==
    /\ orch.pc = "digest"
    /\ Len(digest_log') = Len(digest_log) + 1
    /\ ~digest_log'[Len(digest_log')].ok

\* C12: when the digest send returns failure, send_daily_digest changes no
\* last-run record: the in-memory mapping and the last-run file are the same
\* after the call as before it.
C12_FailedDigestKeepsLastRun ==
    [][DigestSendFailed => UNCHANGED <<last_run_times, last_run_file>>]_vars

\* a finished run that accumulated a URL, whose send failed, and whose
\* last-run records are still the ones of the earlier run
C12_Witness ==
    /\ RunOver /\ ~digest_log[1].ok
    /\ Len(digest_urls) >= 1
    /\ last_run_times = StaleLastRun /\ last_run_file = StaleLastRun

\* the cache of the BatchProcessor that the next process builds from the files
Rebuilt == load_existing_data(scraped_files, progress_file)

\* C13: when a digest run's send fails, every URL accumulated in that run is
\* not a duplicate for the next run, whose BatchProcessor is rebuilt from the
\* persisted snapshot and progress files.
C13_FailedDigestUrlsStayNew ==
    (RunOver /\ ~digest_log[1].ok) =>
        \A i \in 1..Len(digest_urls) :
            ~is_duplicate(digest_urls[i].url, Rebuilt.existing_urls, Rebuilt.url_hashes)

\* ------------------------------------------------------------------ properties of the cache
\* the items of seq at the positions in S, in order
Pick(seq, S) ==
    LET Nth(n) == CHOOSE j \in S : Cardinality({h \in S : h < j}) = n - 1
    IN [n \in 1..Cardinality(S) |-> seq[Nth(n)]]

\* the positions of links whose URL can be extracted and was, when the item
\* was reached, neither a duplicate nor already sent: the cache at that moment
\* is the cache at the call plus the URLs of the positions kept before
KeptWhenReached(links, existing, hashes, sent) ==
    CHOOSE S \in SUBSET (1..Len(links)) :
        \A j \in 1..Len(links) :
            LET url == ExtractUrl(links[j])
                seen == {ExtractUrl(links[h]) : h \in {h \in S : h < j}}
            IN j \in S <=>
                  /\ url # None
                  /\ ~is_duplicate(url, existing \cup seen,
                                   hashes \cup {md5(u) : u \in seen})
                  /\ ~is_already_sent(url, sent)

\* the step runs filter_unique_urls on a non-empty input (on its own or inside
\* process_batch); the call record then holds the input and the result
FilterRan ==
    /\ pb.pc = "idle"
    /\ pb'.all_urls # <<>>
    /\ pb'.ret \in {"none", "true", "filtered"}

\* C14: filter_unique_urls returns, in input order, exactly the items whose
\* URL can be extracted and for which neither is_duplicate nor is_already_sent
\* held when the item was reached; no URL appears twice in the result, and on
\* return every returned URL is in existing_urls with its MD5 in url_hashes.
C14_FilterUniqueUrls ==
    [][FilterRan =>
          LET links == pb'.all_urls
              unique == pb'.unique_links
          IN /\ unique = Pick(links, KeptWhenReached(links, existing_urls,
                                                     url_hashes, sent_urls))
             /\ \A i, j \in 1..Len(unique) :
                   i # j => ExtractUrl(unique[i]) # ExtractUrl(unique[j])
             /\ \A i \in 1..Len(unique) :
                   /\ ExtractUrl(unique[i]) \in existing_urls'
                   /\ md5(ExtractUrl(unique[i])) \in url_hashes']_vars

\* process_batch has filtered an input of three items: the first carries a
\* URL known from a snapshot file, the second a new URL, the third repeats the
\* second; only the second was kept
C14_Witness ==
    /\ pb.pc = "send"
    /\ Len(pb.all_urls) = 3
    /\ ExtractUrl(pb.all_urls[1]) \in scraped_files
    /\ ExtractUrl(pb.all_urls[2]) \notin scraped_files
    /\ pb.all_urls[3] = pb.all_urls[2]
    /\ pb.unique_links = <<pb.all_urls[2]>>

IsDup(u) == is_duplicate(u, existing_urls, url_hashes)

\* the step is an is_duplicate call
IsDuplicateRan == pb.pc = "idle" /\ pb'.ret \in {"duplicate", "new"}

\* C15: once a URL has been loaded from a snapshot file or the progress file,
\* or accepted by filter_unique_urls, is_duplicate answers true for it after
\* any further BatchProcessor operation (is_duplicate, filter_unique_urls with
\* the URL again, process_batch, the resets); is_duplicate changes no state.
C15_DuplicateForever ==
    [][/\ \A u \in Urls : IsDup(u) => is_duplicate(u, existing_urls', url_hashes')
       /\ \A u \in scraped_files \cup progress_file.sent_urls : IsDup(u)
       /\ IsDuplicateRan =>
             /\ UNCHANGED <<bp_vars, file_vars>>
             /\ pb'.ret = "duplicate" <=> IsDup(pb'.all_urls[1].url)]_vars

\* a URL no snapshot file held was accepted by the filter, the sent set is
\* empty again, and is_duplicate has just answered true for that URL
C15_Witness ==
    /\ pb.pc = "done" /\ pb.ret = "duplicate"
    /\ pb.all_urls[1].url \notin scraped_files
    /\ pb.all_urls[1].url \in existing_urls
    /\ sent_urls = {} /\ progress_file = ProgressRecord({})

\* C16 as stated: existing_urls, url_hashes and sent_urls only grow; no
\* BatchProcessor operation removes an element from any of them.
C16_CachesGrowOnly ==
    [][/\ existing_urls \subseteq existing_urls'
       /\ url_hashes \subseteq url_hashes'
       /\ sent_urls \subseteq sent_urls']_vars

\* the step is a reset_progress call
ResetProgressRan == pb.pc = "idle" /\ pb'.ret = "reset"

\* C16 as amended: existing_urls and url_hashes only grow under every
\* operation; sent_urls only grows under every operation except
\* reset_progress, which empties it.
C16_CachesGrowExceptReset ==
    [][/\ existing_urls \subseteq existing_urls'
       /\ url_hashes \subseteq url_hashes'
       /\ IF ResetProgressRan THEN sent_urls' = {}
          ELSE sent_urls \subseteq sent_urls']_vars

\* reset_progress has just emptied a sent set that held a URL loaded from the
\* progress file (its hash is cached though no snapshot or filter call
\* registered the URL); the duplicate cache kept everything it had
C16_Witness ==
    /\ pb.pc = "done" /\ pb.ret = "reset"
    /\ sent_urls = {}
    /\ \E u \in Urls : md5(u) \in url_hashes /\ u \notin existing_urls
    /\ existing_urls # {}

\* the step is the start of a process_batch call whose input is empty or is
\* reduced to empty by filter_unique_urls
EmptyBatchCalled ==
    /\ pb.pc = "idle"
    /\ pb'.ret \in {"none", "true"}
    /\ KeptWhenReached(pb'.all_urls, existing_urls, url_hashes, sent_urls) = {}

\* C17: a process_batch call whose input is empty, or is reduced to empty by
\* filter_unique_urls, invokes the notifier zero times, leaves sent_urls and
\* the progress file unchanged, returns true, and writes a last-run record
\* with urls_found = 0 and last_success = true if and only if a key was given.
C17_EmptyBatchIsNoOp ==
    [][EmptyBatchCalled =>
          /\ pb'.pc = "done" /\ pb'.ret = "true"
          /\ mail_log' = mail_log
          /\ UNCHANGED <<sent_urls, progress_file>>
          /\ IF pb'.scraper_key # NoKey
             THEN /\ last_run_times' =
                        update_last_run_time(last_run_times, pb'.scraper_key,
                                             pb'.scraper_key, 0, TRUE, clock)
                  /\ last_run_times'[pb'.scraper_key].urls_found = 0
                  /\ last_run_times'[pb'.scraper_key].last_success
                  /\ last_run_file' = last_run_times'
             ELSE UNCHANGED <<last_run_times, last_run_file>>]_vars

\* a keyed call whose two items were both filtered out has returned true
\* without a send and left a fresh record with count 0
C17_Witness ==
    /\ Returned("true")
    /\ Len(pb.all_urls) >= 2 /\ pb.unique_links = <<>>
    /\ mail_log = <<>>
    /\ pb.scraper_key = BatchKey
    /\ FreshRecord(last_run_file, BatchKey)
    /\ last_run_times[BatchKey].urls_found = 0

\* ------------------------------------------------------------------ properties of the legacy orchestrator
\* C18: a legacy run_scraper call whose scraper returns a non-empty result
\* hands it to process_batch together with the scraper's registry key, so
\* that when process_batch returns the last-run record under that key has
\* been updated in this run.
C18_LegacyBatchTaggedWithKey ==
    /\ orch.pc = "legacy_batch" => pb.scraper_key = CurrentEntry.key
    /\ \A j \in 1..Len(exec_log) :
          exec_log[j].ret = "urls" => FreshRecord(last_run_times, exec_log[j].key)

\* the entry a run_scraper call was made on, read after the step
CalledEntry == scraper_registry[orch.cat][orch.idx]

\* the step is a run_scraper call on a registry entry
LegacyCalled ==
    /\ LegacyReady
    /\ \/ orch'.pc = "legacy_batch"
       \/ exec_log' # <<>> /\ exec_log'[1].key = CalledEntry'.key

\* C19: legacy run_scraper on a disabled entry records a result with
\* success = false and message 'Disabled', returns absent and executes
\* nothing: the module is not imported, its entry point is not called, and no
\* BatchProcessor state or file is changed.
C19_LegacyDisabledDoesNothing ==
    [][(LegacyCalled /\ ~CalledEntry'.enabled) =>
          /\ results' = [k \in DOMAIN results \cup {CalledEntry'.key} |->
                            IF k = CalledEntry'.key
                            THEN LegacyResult(FALSE, 0, "Disabled") ELSE results[k]]
          /\ exec_log' = <<LegacyCall(CalledEntry'.key, FALSE, FALSE, "absent")>>
          /\ orch'.pc = "idle"
          /\ UNCHANGED <<bp_vars, file_vars, call_vars, clock>>]_vars

\* run_scraper has returned absent for the disabled entry 'crosner' and
\* recorded the 'Disabled' result
C19_Witness ==
    /\ ~scraper_registry[1][2].enabled
    /\ exec_log = <<LegacyCall("crosner", FALSE, FALSE, "absent")>>
    /\ "crosner" \in DOMAIN results
    /\ results["crosner"] = LegacyResult(FALSE, 0, "Disabled")
    /\ pb = IdleCall

\* ------------------------------------------------------------------ properties of fetch_page
\* the number of GET attempts made so far
Attempts == Cardinality({j \in 1..Len(fetch.log) : fetch.log[j].kind = "get"})

\* GETs and sleeps alternate, one URL throughout, and the sleep that follows
\* attempt number k (counted from 0) lasts 2^k seconds
BackoffSchedule ==
    \A j \in 1..Len(fetch.log) :
        IF j % 2 = 1
        THEN fetch.log[j].kind = "get" /\ fetch.log[j].url = fetch.url
        ELSE /\ fetch.log[j].kind = "sleep"
             /\ fetch.log[j].seconds = Pow2((j \div 2) - 1)
             /\ fetch.log[j - 1].response \in {"http_403", "request_error"}

\* the call is over exactly when the last attempt produced a page, failed in
\* a way that is not retried, or failed with the retries used up; it then
\* returned the page or absent, nothing else
ReturnsPageOrAbsent ==
    /\ fetch.ret \in {"none", "soup", "absent"}
    /\ fetch.pc = "returned" =>
          /\ fetch.log # <<>>
          /\ fetch.ret = IF fetch.log[Len(fetch.log)].response = "ok"
                         THEN "soup" ELSE "absent"
    /\ fetch.pc # "returned" => fetch.ret = "none"

FetchBounded ==
    /\ Attempts <= fetch.max_retries + 1
    /\ BackoffSchedule
    /\ ReturnsPageOrAbsent

\* C20: fetch_page terminates for every sequence of failing responses: at
\* most max_retries + 1 GET attempts for one URL, a sleep of 2^attempt seconds
\* before the retry that follows attempt number attempt (0-based), and, once
\* the retries are used up, absent is returned and nothing is raised.
C20_FetchPageTerminates ==
    /\ []FetchBounded
    /\ (fetch.pc = "get") ~> (fetch.pc = "returned")

\* with max_retries = 3 every attempt failed in a retried way: four GETs,
\* sleeps of 1, 2 and 4 seconds between them, and absent returned
C20_Witness ==
    /\ fetch.pc = "returned" /\ fetch.ret = "absent"
    /\ fetch.max_retries = 3
    /\ Attempts = 4
    /\ Len(fetch.log) = 7
    /\ fetch.log[2].seconds = 1 /\ fetch.log[4].seconds = 2 /\ fetch.log[6].seconds = 4
    /\ fetch.log[7].response = "request_error"

\* the response of the last GET of the call
LastResponse == fetch.log[Len(fetch.log)].response

\* the failures the specification calls transient: an HTTP error status, a
\* 403, a connection error or timeout
TransientResponses == {"http_403", "http_other", "request_error"}

\* C21: every transient fetch failure (HTTP error status, connection error,
\* 403) is retried up to max_retries times with exponential backoff before
\* the URL is given up: a call that gives up on a transient failure has made
\* max_retries + 1 GETs.
C21_TransientFailuresRetried ==
    (/\ fetch.pc = "returned"
     /\ fetch.ret = "absent"
     /\ LastResponse \in TransientResponses)
    => Attempts = fetch.max_retries + 1

\* ------------------------------------------------------------------ properties of BaseScraper.run
RunEnded == run.pc \in {"returned", "raised"}

\* session closed on every exit path, and an exception of scrape re-raised
ClosesAndReRaises ==
    /\ run.session = "closed"
    /\ run.scrape = "raised" => run.pc = "raised" /\ run.ret = "scrape_error"
    /\ run.pc = "returned" => run.ret = "scraped_data"

\* C22 as stated: run closes the HTTP session on every exit path, re-raises
\* any exception raised by scrape, and a snapshot file is written if and only
\* if scrape left at least one record in scraped_data.
C22_SnapshotIffRecords ==
    RunEnded =>
        /\ ClosesAndReRaises
        /\ run.snapshot.exists <=> run.scraped_data # <<>>

\* C22 amended: run closes the HTTP session on every exit path and re-raises
\* any exception raised by scrape or by saving; the snapshot file holding
\* scraped_data is written if and only if scrape returned without raising,
\* left at least one record and the write succeeded; no file is created
\* when scrape raised or left no record.
C22_SnapshotIffReturnedWithRecords ==
    RunEnded =>
        /\ ClosesAndReRaises
        /\ run.ret = "save_error" <=> (run.pc = "raised" /\ run.scrape = "returned")
        /\ (run.snapshot.complete /\ run.snapshot.data = run.scraped_data)
              <=> (run.pc = "returned" /\ run.scraped_data # <<>>)
        /\ (run.scrape = "raised" \/ run.scraped_data = <<>>) => ~run.snapshot.exists

\* scrape raised after collecting records: session closed, nothing persisted
C22_Witness ==
    /\ run.pc = "raised" /\ run.scrape = "raised"
    /\ Len(run.scraped_data) = 2
    /\ run.session = "closed"
    /\ ~run.snapshot.exists

\* ------------------------------------------------------------------ properties of settings.py
\* the key's registry entry carries a date_filtering flag
EntryFlagSet(key) ==
    /\ key \in DOMAIN settings.date_filtering
    /\ settings.date_filtering[key] # "unset"

\* C23: for every scraper key, is_date_filtering_enabled returns the
\* entry-level date_filtering flag when the key's registry entry carries one
\* (also when it conflicts with the global flag) and in every other case
\* falls back to the global enable_date_filtering flag.
C23_EntryFlagElseGlobal ==
    settings.pc = "returned" =>
        settings.ret = IF EntryFlagSet(settings.key)
                       THEN settings.date_filtering[settings.key] = "on"
                       ELSE settings.enable_date_filtering

\* ------------------------------------------------------------------ properties of URL normalisation
\* the two URLs differ at most in the letter case of host or path or in a
\* trailing slash
SameUpToCaseAndSlash(u, v) ==
    /\ Lower(u.host) = Lower(v.host)
    /\ Lower(u.path) = Lower(v.path)

\* C24: two URLs that differ only in the letter case of host or path or in a
\* trailing slash normalize to the same string, and once one of them is in
\* the BatchProcessor cache is_duplicate returns true for the other.
C24_VariantsAreDuplicates ==
    (pb.pc = "done" /\ pb.ret \in {"duplicate", "new"}) =>
        \A u \in existing_urls :
            SameUpToCaseAndSlash(u, pb.all_urls[1].url) =>
                /\ normalize_url(u) = normalize_url(pb.all_urls[1].url)
                /\ BaseScraper_normalize_url(u) = BaseScraper_normalize_url(pb.all_urls[1].url)
                /\ pb.ret = "duplicate"

\* ------------------------------------------------------------------ properties of the breach scraper
\* what the claim compares: company, state, raw date text and people-affected
\* text, case-insensitively
BreachKey(row) ==
    <<Lower(row.company), Lower(row.state), Lower(row.breach_date), Lower(row.people_affected)>>

\* row j of the rows read is suppressed: an earlier row that reached the
\* hashing carries the same four values
Suppressed(j) ==
    /\ ~RowSkipped(breach.rows[j])
    /\ \E k \in 1..(j - 1) :
          /\ ~RowSkipped(breach.rows[k])
          /\ BreachKey(breach.rows[k]) = BreachKey(breach.rows[j])

\* row j is the one its values collapse to: the first of its kind, in the window
Kept(j) ==
    /\ ~RowSkipped(breach.rows[j])
    /\ ~Suppressed(j)
    /\ is_recent(breach.rows[j].breach_date)

KeptRows == SelectSeq([j \in 1..Len(breach.rows) |-> j], Kept)

\* C25: in one scrape call no two returned records share a breach_hash; rows
\* with identical company, state, raw breach-date text and people-affected
\* text (case-insensitively, whatever their breach type) collapse to the first
\* such row seen on any page, and each suppressed row adds one to the
\* reported duplicate tally.
C25_BreachesCollapseToFirst ==
    /\ \A i, j \in 1..Len(breach.results) :
          i # j => /\ breach.results[i].breach_hash # breach.results[j].breach_hash
                   /\ BreachKey(breach.results[i]) # BreachKey(breach.results[j])
    /\ Len(breach.results) = Len(KeptRows)
    /\ \A i \in 1..Len(breach.results) :
          LET row == breach.rows[KeptRows[i]]
          IN /\ breach.results[i].company = row.company
             /\ breach.results[i].breach_type = row.breach_type
             /\ breach.results[i].breach_date = row.breach_date
    /\ breach.total_duplicates + breach.page_duplicates
          = Cardinality({j \in 1..Len(breach.rows) : Suppressed(j)})
    /\ breach.reported # None =>
          breach.reported = Cardinality({j \in 1..Len(breach.rows) : Suppressed(j)})

\* "Acme"/Hacking on page 1, "ACME"/Theft on page 2 and again: one record, the
\* first row's, and a reported tally of 2
C25_Witness ==
    /\ breach.pc = "returned"
    /\ breach.page_number = 2
    /\ Len(breach.rows) = 3
    /\ breach.rows[1].company = "Acme" /\ breach.rows[1].breach_type = "Hacking"
    /\ breach.rows[2].company = "ACME" /\ breach.rows[2].breach_type = "Theft"
    /\ breach.rows[3].company = "ACME"
    /\ Len(breach.results) = 1
    /\ breach.results[1].breach_type = "Hacking"
    /\ breach.reported = 2
    /\ breach.total_duplicates = 2

\* ------------------------------------------------------------------ properties of the USA Today tracker
\* the identifiers the tracking file held when the run began
PersistedBefore == IF tracker.file_before.exists THEN Range(tracker.file_before.data) ELSE {}

\* the input records, in order, whose identifier is non-empty and not persisted
ExpectedNew ==
    SelectSeq(tracker.all_breaches,
              LAMBDA r : identifier(r) # "" /\ identifier(r) \notin PersistedBefore)

\* C26: filter_new_urls returns exactly the input records whose identifier is
\* non-empty and not in the persisted identifier set, so a breach whose
\* identifier was recorded by mark_as_sent in an earlier run is never included
\* in a later run's new-breach email.
C26_SentBreachesNeverResent ==
    tracker.pc = "done" =>
        /\ tracker.new_breaches = ExpectedNew
        /\ tracker.email.records = tracker.new_breaches
        /\ \A j \in 1..Len(tracker.email.records) :
              identifier(tracker.email.records[j]) \notin tracker.marked_before
        /\ tracker.marked \subseteq Range(tracker.file.data)

\* second run: "h1" was marked by the first run, comes again with "h2", and
\* only the "h2" record is emailed
C26_Witness ==
    /\ tracker.pc = "done" /\ tracker.runs = 2
    /\ tracker.marked_before = {"h1"}
    /\ Len(tracker.all_breaches) = 2
    /\ tracker.all_breaches[1].breach_hash = "h1"
    /\ tracker.all_breaches[2].breach_hash = "h2"
    /\ Len(tracker.email.records) = 1
    /\ tracker.email.records[1].breach_hash = "h2"

\* the record has no breach-content hash: the key is missing or its value empty
NoBreachHash(r) == r.breach_hash \in {AbsentField, ""}

\* C27: the identifier the tracker uses for a record is its breach-content
\* hash when the record has one and otherwise its URL: a record whose
\* breach_hash is absent or empty is filtered and marked by its URL rather
\* than being dropped as a duplicate.
C27_UrlWhenNoHash ==
    tracker.pc = "done" =>
        \A j \in 1..Len(tracker.all_breaches) :
            LET r == tracker.all_breaches[j]
            IN (NoBreachHash(r) /\ r.url # "" /\ r.url \notin PersistedBefore) =>
                  /\ \E k \in 1..Len(tracker.new_breaches) : tracker.new_breaches[k] = r
                  /\ r.url \in tracker.sent_urls

\* ------------------------------------------------------------------ properties of reset_progress.py
\* the step is a run of the reset script
ResetScriptRan == script.pc = "idle" /\ script'.pc = "exited" /\ script'.name = "reset_progress"

\* what was typed reads 'yes' (the script trims and lower-cases the response)
TypedYes == script'.typed \in {"yes", "YES", " yes "}

\* C28: the reset-progress script changes state only after the confirmation
\* 'yes': for any other response it exits with status 0 having constructed no
\* BatchProcessor and leaving the progress file and the last-run file
\* unchanged; after 'yes' the persisted sent-URL list is empty and the
\* persisted last-run mapping is empty.
C28_ResetOnlyAfterYes ==
    [][ResetScriptRan =>
          IF TypedYes
          THEN /\ progress_file'.exists
               /\ progress_file'.sent_urls = {}
               /\ last_run_file' = <<>>
               /\ UNCHANGED scraped_files
          ELSE /\ script'.status = 0
               /\ ~script'.constructed
               /\ UNCHANGED <<bp_vars, file_vars>>]_vars

\* 'YES' was typed over a progress file that listed a sent URL (its hash is
\* in the cache, the URL in no snapshot): the persisted list and the last-run
\* file are empty now
C28_Witness ==
    /\ script.pc = "exited" /\ script.typed = "YES" /\ script.constructed
    /\ \E u \in Urls : md5(u) \in url_hashes /\ u \notin existing_urls
    /\ progress_file = ProgressRecord({})
    /\ last_run_file = <<>> /\ last_run_times = <<>>

\* ------------------------------------------------------------------ properties of reset_progress
\* C29: after BatchProcessor.reset_progress all URLs will be sent again: every
\* URL that had been sent before the reset passes filter_unique_urls (is
\* neither a duplicate nor already sent) the next time it is scraped, both in
\* the same process and in the next run, whose BatchProcessor is rebuilt from
\* the files.
C29_ResetMakesSentUrlsNew ==
    [][ResetProgressRan =>
          \A u \in sent_urls :
              /\ ~is_duplicate(u, existing_urls', url_hashes')
              /\ ~is_already_sent(u, sent_urls')
              /\ LET next_run == load_existing_data(scraped_files', progress_file')
                 IN /\ ~is_duplicate(u, next_run.existing_urls, next_run.url_hashes)
                    /\ ~is_already_sent(u, next_run.sent_urls)]_vars

\* ------------------------------------------------------------------ properties of run_single_scraper.py
\* the name matches a registry key or a display name, case-insensitively
NameResolves ==
    \E j \in 1..Len(AllEntries) :
        \/ Lower(AllEntries[j].key) = Lower(script.typed)
        \/ Lower(AllEntries[j].name) = Lower(script.typed)

\* C30: the run-single-scraper script exits with status 1 and the 'not found'
\* message exactly when the given name matches no registry key and no display
\* name (case-insensitively); for a name that resolves, run_specific_scraper
\* does not return absent and the script prints the summary instead.
C30_NotFoundIffUnresolved ==
    (script.pc = "exited" /\ script.name = "run_single_scraper") =>
        /\ (script.status = 1 /\ script.output = "not found") <=> ~NameResolves
        /\ NameResolves => script.output = "summary"

\* ------------------------------------------------------------------ properties of validate_config
ValidateEnded == settings.validate.pc = "done"

\* a sender address, a credential, a recipient list and every directory are there
ConfigComplete ==
    /\ \A k \in EmailKeys : settings.email_config[k] = "set"
    /\ RequiredDirs \subseteq settings.dirs

\* C31: validate_config never raises: for every loaded email configuration, the
\* empty one of an absent file included, it returns false when the sender
\* address, the credential, the recipient list or a required directory is
\* missing, and true otherwise.
C31_ValidateNeverRaises ==
    ValidateEnded =>
        /\ ~settings.validate.raised
        /\ settings.validate.ret = ConfigComplete

\* ------------------------------------------------------------------ the progress file between batches
\* the successful sends of the call so far
Delivered(j) == Sends[j].ok

\* at least one batch of the call has been delivered
SomeBatchDelivered == \E j \in 1..Len(Sends) : Delivered(j)

\* C32: the progress file is rewritten after every successfully delivered
\* batch: at every point after the send of batch k succeeded and before the
\* send of batch k+1 starts, the inter-batch delay included, the persisted
\* sent_urls list equals the in-memory sent set and contains every URL of
\* batches 1..k.
C32_ProgressSavedPerBatch ==
    SomeBatchDelivered =>
        /\ progress_file.exists
        /\ progress_file.sent_urls = sent_urls
        /\ progress_file.total_sent = Cardinality(sent_urls)
        /\ \A j \in 1..Len(Sends) :
              Delivered(j) => Range(Sends[j].urls) \subseteq progress_file.sent_urls

\* the first of several batches is delivered and the call sleeps before the
\* second: the file already lists the first batch, which was not sent before
C32_Witness ==
    /\ pb.pc = "sleep" /\ pb.batch_number = 1 /\ pb.total_batches >= 2
    /\ Len(Sends) = 1 /\ Delivered(1)
    /\ Range(Sends[1].urls) \cap pb.sent_at_call = {}
    /\ Range(Sends[1].urls) \subseteq progress_file.sent_urls

\* ------------------------------------------------------------------ paging of USATodayBreachesScraper.scrape
\* every page before the current one had rows
EarlierPagesHadRows ==
    \A j \in 1..Len(breach.page_log) :
        j < breach.page_number => breach.page_log[j]

\* the page and advance budgets, no step past an empty page or a failed
\* advance, and an opened driver is quit once scrape has returned
PagingBounded ==
    /\ breach.page_number <= MaxPages
    /\ Len(breach.page_log) <= MaxPages
    /\ breach.advances <= MaxPages - 1
    /\ EarlierPagesHadRows
    /\ breach.pc = "page" =>
          /\ breach.driver = "open"
          /\ breach.advances = breach.page_number - 1
    /\ breach.pc = "returned" =>
          /\ breach.driver # "open"
          /\ breach.driver = "none" <=> breach.page_number = 0
          /\ breach.stop = "empty" => ~breach.page_log[breach.page_number]
          /\ breach.stop = "no_next" => breach.advances = breach.page_number
          /\ breach.stop = "max_pages" => breach.page_number = MaxPages

C34_SentUrlsAreHashed ==
    /\ \A u \in sent_urls : md5(u) \in url_hashes
    /\ \A u \in OpUrls :
          is_already_sent(u, sent_urls) => is_duplicate(u, existing_urls, url_hashes)

\* a URL loaded from the progress file only (a duplicate by its hash alone)
\* and a URL delivered by this process_batch call are both in sent_urls
C34_Witness ==
    /\ Returned("true")
    /\ \E u \in sent_urls : u \in pb.sent_at_call /\ u \notin existing_urls
    /\ \E v \in sent_urls : v \notin pb.sent_at_call

\* ------------------------------------------------------------------ digest mode and delivery progress
\* the URLs this step appended to digest_urls
DigestAccepted ==
    IF Len(digest_urls') > Len(digest_urls)
    THEN {digest_urls'[j].url : j \in (Len(digest_urls) + 1)..Len(digest_urls')}
    ELSE {}

\* one step of a digest-mode run leaves sent_urls and the progress file alone
\* and records what it accepts in both caches
DigestStepFrame ==
    /\ sent_urls' = sent_urls
    /\ progress_file' = progress_file
    /\ existing_urls \subseteq existing_urls'
    /\ url_hashes \subseteq url_hashes'
    /\ DigestAccepted \subseteq existing_urls'
    /\ {md5(u) : u \in DigestAccepted} \subseteq url_hashes'

\* C35: a digest-mode run never changes delivery-progress state: after any
\* sequence of _execute_scraper and send_daily_digest calls, whether the send
\* succeeds or fails, sent_urls and the progress file are the same as at
\* BatchProcessor construction; accepted URLs are recorded only in
\* existing_urls and url_hashes.
C35_DigestKeepsProgress == [][DigestStepFrame]_vars

\* a run that accepted a URL and sent its digest, over a progress file of an
\* earlier run: the file and sent_urls still hold exactly the earlier URLs
C35_Witness ==
    /\ RunOver /\ digest_log[1].ok
    /\ Len(digest_urls) >= 1
    /\ digest_urls[1].url \in existing_urls /\ digest_urls[1].url \notin sent_urls
    /\ sent_urls = PriorUrls
    /\ progress_file = ProgressRecord(PriorUrls)

\* ------------------------------------------------------------------ delivered URLs in later runs
\* the URLs of the digests delivered so far
DeliveredUrls(n) == UNION {digest_log[i].urls : i \in {h \in 1..n : digest_log[h].ok}}

\* the run that delivered the last digest is over and a later process is running
LaterRun(i) == i < Len(digest_log) \/ (i = Len(digest_log) /\ orch.pc # "done")

\* C36: a URL delivered in a successful digest email is a duplicate in every
\* later run: the scraper that returned it persisted its snapshot through
\* BaseScraper.run, the BatchProcessor built at the start of any later run has
\* the URL in its cache, and no URL is emailed in two different digest runs.
C36_DeliveredOncePerUrl ==
    /\ \A i \in 1..Len(digest_log) :
          (digest_log[i].ok /\ LaterRun(i)) =>
              \A u \in digest_log[i].urls :
                  /\ u \in scraped_files
                  /\ is_duplicate(u, existing_urls, url_hashes)
    /\ \A j \in 2..Len(digest_log) :
          digest_log[j].urls \cap DeliveredUrls(j - 1) = {}

\* run 1 delivered a URL; in run 2 the scraper returned it again, it was
\* filtered as a duplicate and the second digest went out without it
C36_Witness ==
    /\ Len(digest_log) = 2 /\ digest_log[1].ok /\ digest_log[2].ok
    /\ digest_log[1].urls # {}
    /\ last_exec.key # NoKey /\ last_exec.first_new = <<>>
    /\ \E k \in DOMAIN results : results[k].success /\ results[k].urls_found >= 1
    /\ digest_log[2].urls = {}

\* ------------------------------------------------------------------ URLs of a failed call
\* the send of an earlier call failed and a later call on the same
\* BatchProcessor has been made
InLaterCall ==
    /\ \E j \in 1..Len(Sends) : ~Sends[j].ok
    /\ ~Returned("false")

\* the URLs the later call took as unique
OfferedAgain == {UniqueUrl(m) : m \in 1..Len(pb.unique_links)}

\* C37: a URL accepted by filter_unique_urls inside a process_batch call that
\* then failed before the URL's batch was sent is not lost: in a later
\* process_batch call on the same BatchProcessor with the same URL in its
\* input, the URL is not dropped as a duplicate and is offered to the
\* notifier again.
C37_FailedBatchOfferedAgain ==
    InLaterCall =>
        \A j \in 1..Len(Sends) :
            ~Sends[j].ok => Range(Sends[j].urls) \subseteq OfferedAgain

\* ------------------------------------------------------------------ marking after the send
\* the run's new-breach email was not transmitted: send_digest_email returned False
NewBreachSendFailed ==
    tracker.pc = "done" /\ tracker.email.kind = "new" /\ ~tracker.email.ok

\* C38: an identifier is added to the persisted identifier set only after the
\* email containing that breach was transmitted successfully: when
\* send_digest_email returns false for the new-breach email, the tracker's set
\* and file are unchanged and the same breaches are reported as new by the
\* next run.
C38_MarkedOnlyAfterSuccessfulSend ==
    NewBreachSendFailed =>
        /\ tracker.file = tracker.file_before
        /\ tracker.sent_urls = PersistedBefore
        /\ filter_new_urls(tracker.all_breaches, load_sent_urls(tracker.file))
              = tracker.new_breaches

====
